---- MODULE Spec2Model ----
(***************************************************************************)
(* Authorization and approval model of the property-management            *)
(* application: the row-level-security policies of the migrations, the    *)
(* registration trigger, and the client-side ApprovalGuard.               *)
(***************************************************************************)
EXTENDS Integers, FiniteSets, Sequences, TLC

(* ---- bounds ---- *)
MaxUsers == 2     \* registered identities
MaxRoots == 2     \* rows per root table (properties, tenants)
MaxRows == 1      \* rows per child table (units, leases, payments, maintenance_requests)

UserIds == 1..MaxUsers

(* app_role, approval_status enums *)
app_role == {"super_admin", "property_owner"}
approval_status == {"pending", "approved", "rejected"}

OwnedTables == {"properties", "units", "tenants", "leases", "payments", "maintenance_requests"}

VARIABLES
  auth_users,            \* auth.users: the registered identities
  profiles,              \* public.profiles: id -> row
  user_roles,            \* public.user_roles: set of (user_id, role), UNIQUE
  properties,            \* public.properties: id -> row
  units,                 \* public.units
  tenants,               \* public.tenants
  leases,                \* public.leases
  payments,              \* public.payments
  maintenance_requests,  \* public.maintenance_requests
  lastOp,                \* the last statement and its outcome as seen by the caller
  auth,                  \* the value useAuth() hands to the components of one browser session
  location,              \* useLocation(): the route requested
  view,                  \* what ApprovalGuard rendered for it
  admin_activity_logs,   \* public.admin_activity_logs: id -> row
  adminPage,             \* the state of the Admin component mounted in that session
  moves,                 \* the approval_status changes made so far through the Admin page
  storage_objects,       \* storage.objects: the files held by the storage service
  routerState,           \* useLocation().state: what the last navigation carried along
  signup,                \* the sign-up wizard of the Auth page
  today,                 \* new Date(): the current date
  listPage,              \* the state of the Maintenance or Payments component mounted
  reports,               \* the state of the Reports component
  receipt                \* the state of the Receipt component

accountVars == <<auth_users, profiles, user_roles>>
ownedVars == <<properties, units, tenants, leases, payments, maintenance_requests>>
uiVars == <<auth, location, view>>
adminVars == <<admin_activity_logs, adminPage, moves>>
pageVars == <<storage_objects, routerState, signup, today, listPage, reports, receipt>>
vars == <<auth_users, profiles, user_roles, properties, units, tenants, leases,
          payments, maintenance_requests, lastOp, auth, location, view,
          admin_activity_logs, adminPage, moves,
          storage_objects, routerState, signup, today, listPage, reports, receipt>>

\* no statement in flight.  old_owner / new_owner record the root owner of the targeted
\* row and of the row written, as resolved when the statement ran (0: no such row)
NoRow == [none |-> TRUE]
NoOp == [caller |-> 0, op |-> "none", table |-> "none", id |-> 0, row |-> NoRow,
         result |-> "ok", n |-> 0, rows |-> {}, old_owner |-> 0, new_owner |-> 0,
         fk |-> TRUE, admin |-> FALSE]

(* ---- schema ---- *)
\* the primary keys a table may hold (gen_random_uuid() draws the smallest free one)
RowIds(t) == IF t \in {"properties", "tenants"} THEN 1..MaxRoots ELSE 1..MaxRows

Tbl(t) ==
  CASE t = "properties" -> properties
    [] t = "units" -> units
    [] t = "tenants" -> tenants
    [] t = "leases" -> leases
    [] t = "payments" -> payments
    [] t = "maintenance_requests" -> maintenance_requests

\* the rows a statement may carry: the ownership columns of each table, and the
\* status column where the ownership columns alone leave nothing to update
RowsOf(t) ==
  CASE t = "properties" -> [owner_id : auth_users]
    [] t = "units" -> [property_id : RowIds("properties"), status : {"available", "occupied"}]
    [] t = "tenants" -> [owner_id : auth_users]
    [] t = "leases" -> [unit_id : RowIds("units"), tenant_id : RowIds("tenants")]
    [] t = "payments" -> [lease_id : RowIds("leases"), status : {"pending", "paid"}]
    [] t = "maintenance_requests" -> [unit_id : RowIds("units"), status : {"pending", "resolved"}]

\* REFERENCES ... NOT NULL: every referenced parent exists
FkOk(t, row) ==
  CASE t = "properties" -> row.owner_id \in auth_users
    [] t = "units" -> row.property_id \in DOMAIN properties
    [] t = "tenants" -> row.owner_id \in auth_users
    [] t = "leases" -> row.unit_id \in DOMAIN units /\ row.tenant_id \in DOMAIN tenants
    [] t = "payments" -> row.lease_id \in DOMAIN leases
    [] t = "maintenance_requests" -> row.unit_id \in DOMAIN units

\* the owner_id at the root of a row's foreign-key chain (0 when a parent is missing)
RootOwner(t, row) ==
  CASE t = "properties" -> row.owner_id
    [] t = "tenants" -> row.owner_id
    [] t = "units" ->
         IF row.property_id \in DOMAIN properties
         THEN properties[row.property_id].owner_id ELSE 0
    [] t = "leases" ->
         IF row.unit_id \in DOMAIN units /\ units[row.unit_id].property_id \in DOMAIN properties
         THEN properties[units[row.unit_id].property_id].owner_id ELSE 0
    [] t = "maintenance_requests" ->
         IF row.unit_id \in DOMAIN units /\ units[row.unit_id].property_id \in DOMAIN properties
         THEN properties[units[row.unit_id].property_id].owner_id ELSE 0
    [] t = "payments" ->
         IF /\ row.lease_id \in DOMAIN leases
            /\ leases[row.lease_id].unit_id \in DOMAIN units
            /\ units[leases[row.lease_id].unit_id].property_id \in DOMAIN properties
         THEN properties[units[leases[row.lease_id].unit_id].property_id].owner_id ELSE 0

(* ---- policy functions ---- *)
has_role(_user_id, _role) ==
  \E r \in user_roles : r.user_id = _user_id /\ r.role = _role

get_user_property_ids(_user_id) ==
  {id \in DOMAIN properties : properties[id].owner_id = _user_id}

\* USING of the "Owners can view ..." / "Owners can manage ..." policies
OwnerUsing(t, uid, row) ==
  CASE t = "properties" -> uid = row.owner_id
    [] t = "units" -> row.property_id \in get_user_property_ids(uid)
    [] t = "tenants" -> uid = row.owner_id
    [] t = "leases" ->
         row.unit_id \in {u \in DOMAIN units : units[u].property_id \in get_user_property_ids(uid)}
    [] t = "payments" ->
         row.lease_id \in {l \in DOMAIN leases : \E u \in DOMAIN units :
                             /\ leases[l].unit_id = u
                             /\ units[u].property_id \in get_user_property_ids(uid)}
    [] t = "maintenance_requests" ->
         row.unit_id \in {u \in DOMAIN units : units[u].property_id \in get_user_property_ids(uid)}

\* USING of the "Super admins can view all ..." policies
SuperAdminUsing(uid) == has_role(uid, "super_admin")

\* mutant: the payments SELECT policy joins leases to units without the owner filter
CanSelectUnfilteredPayments(t, uid, row) ==
  IF t = "payments"
  THEN row.lease_id \in {l \in DOMAIN leases : \E u \in DOMAIN units : leases[l].unit_id = u}
  ELSE OwnerUsing(t, uid, row) \/ SuperAdminUsing(uid)

\* FOR SELECT: the owner's SELECT policy, the owner's ALL policy, the admin's SELECT policy
CanSelect(t, uid, row) ==
  OwnerUsing(t, uid, row) \/ OwnerUsing(t, uid, row) \/ SuperAdminUsing(uid)

\* mutant: the admin policies are FOR ALL instead of FOR SELECT
CanModifyAdminAll(t, uid, row) == OwnerUsing(t, uid, row) \/ SuperAdminUsing(uid)

\* FOR UPDATE / DELETE of an existing row: only the owner's ALL policy applies
CanModify(t, uid, row) == OwnerUsing(t, uid, row)

\* mutant: the new row is checked against the parent's existence only
WithCheckParentExists(t, uid, row) == FkOk(t, row)

\* WITH CHECK of a new row: the ALL policy's USING expression (no WITH CHECK was given)
WithCheck(t, uid, row) == OwnerUsing(t, uid, row)

(* ---- statements against the owned-resource tables ---- *)
\* a statement of the authenticated caller uid (auth.uid()) against table t
Req(uid, op, t) ==
  [NoOp EXCEPT !.caller = uid, !.op = op, !.table = t, !.admin = has_role(uid, "super_admin")]

FreeIds(t) == RowIds(t) \ DOMAIN Tbl(t)

FreshId(t) == CHOOSE i \in FreeIds(t) : \A j \in FreeIds(t) : i <= j

Restrict(f, S) == [x \in S |-> f[x]]

SetTbl(t, new) ==
  /\ properties' = IF t = "properties" THEN new ELSE properties
  /\ units' = IF t = "units" THEN new ELSE units
  /\ tenants' = IF t = "tenants" THEN new ELSE tenants
  /\ leases' = IF t = "leases" THEN new ELSE leases
  /\ payments' = IF t = "payments" THEN new ELSE payments
  /\ maintenance_requests' = IF t = "maintenance_requests" THEN new ELSE maintenance_requests

\* DELETE of one row with the ON DELETE CASCADE of every child table
CascadeDelete(t, id) ==
  LET p == IF t = "properties" THEN DOMAIN properties \ {id} ELSE DOMAIN properties
      u == {x \in DOMAIN units : units[x].property_id \in p /\ ~(t = "units" /\ x = id)}
      tn == IF t = "tenants" THEN DOMAIN tenants \ {id} ELSE DOMAIN tenants
      l == {x \in DOMAIN leases : /\ leases[x].unit_id \in u
                                  /\ leases[x].tenant_id \in tn
                                  /\ ~(t = "leases" /\ x = id)}
      py == {x \in DOMAIN payments : payments[x].lease_id \in l /\ ~(t = "payments" /\ x = id)}
      m == {x \in DOMAIN maintenance_requests :
              /\ maintenance_requests[x].unit_id \in u
              /\ ~(t = "maintenance_requests" /\ x = id)}
  IN /\ properties' = Restrict(properties, p)
     /\ units' = Restrict(units, u)
     /\ tenants' = Restrict(tenants, tn)
     /\ leases' = Restrict(leases, l)
     /\ payments' = Restrict(payments, py)
     /\ maintenance_requests' = Restrict(maintenance_requests, m)

\* supabase.from(t).select(): the rows the SELECT policies let the caller see
SelectRows(uid, t) ==
  /\ lastOp = NoOp
  /\ lastOp' = [Req(uid, "select", t) EXCEPT !.rows = {id \in DOMAIN Tbl(t) : CanSelect(t, uid, Tbl(t)[id])}]
  /\ UNCHANGED <<accountVars, ownedVars, uiVars, adminVars, pageVars>>

\* supabase.from(t).insert([row])
InsertRow(uid, t, row) ==
  LET res == IF ~WithCheck(t, uid, row) THEN "permission_denied"
             ELSE IF ~FkOk(t, row) THEN "fk_violation" ELSE "ok"
  IN /\ lastOp = NoOp
     /\ res = "ok" => FreeIds(t) # {}
     /\ IF res = "ok"
        THEN /\ SetTbl(t, (FreshId(t) :> row) @@ Tbl(t))
             /\ lastOp' = [Req(uid, "insert", t) EXCEPT !.id = FreshId(t), !.row = row, !.n = 1,
                             !.new_owner = RootOwner(t, row), !.fk = FkOk(t, row)]
        ELSE /\ UNCHANGED ownedVars
             /\ lastOp' = [Req(uid, "insert", t) EXCEPT !.row = row, !.result = res,
                             !.new_owner = RootOwner(t, row), !.fk = FkOk(t, row)]
     /\ UNCHANGED <<accountVars, uiVars, adminVars, pageVars>>

\* supabase.from(t).update(row).eq('id', id)
UpdateRow(uid, t, id, row) ==
  LET hit == /\ id \in DOMAIN Tbl(t)
             /\ CanSelect(t, uid, Tbl(t)[id])
             /\ CanModify(t, uid, Tbl(t)[id])
      res == IF ~hit THEN "ok"
             ELSE IF ~WithCheck(t, uid, row) THEN "permission_denied"
             ELSE IF ~FkOk(t, row) THEN "fk_violation" ELSE "ok"
  IN /\ lastOp = NoOp
     /\ IF hit /\ res = "ok"
        THEN SetTbl(t, [Tbl(t) EXCEPT ![id] = row])
        ELSE UNCHANGED ownedVars
     /\ lastOp' = [Req(uid, "update", t) EXCEPT !.id = id,
                     !.row = row, !.result = res,
                     !.n = IF hit /\ res = "ok" THEN 1 ELSE 0,
                     !.old_owner = IF id \in DOMAIN Tbl(t) THEN RootOwner(t, Tbl(t)[id]) ELSE 0,
                     !.new_owner = RootOwner(t, row), !.fk = FkOk(t, row)]
     /\ UNCHANGED <<accountVars, uiVars, adminVars, pageVars>>

\* supabase.from(t).delete().eq('id', id)
DeleteRow(uid, t, id) ==
  LET hit == /\ id \in DOMAIN Tbl(t)
             /\ CanSelect(t, uid, Tbl(t)[id])
             /\ CanModify(t, uid, Tbl(t)[id])
  IN /\ lastOp = NoOp
     /\ IF hit THEN CascadeDelete(t, id) ELSE UNCHANGED ownedVars
     /\ lastOp' = [Req(uid, "delete", t) EXCEPT !.id = id,
                     !.n = IF hit THEN 1 ELSE 0,
                     !.old_owner = IF id \in DOMAIN Tbl(t) THEN RootOwner(t, Tbl(t)[id]) ELSE 0]
     /\ UNCHANGED <<accountVars, uiVars, adminVars, pageVars>>

\* the awaiting handler takes the response: const { error } = await ...
Settle ==
  /\ lastOp # NoOp
  /\ lastOp' = NoOp
  /\ UNCHANGED <<accountVars, ownedVars, uiVars, adminVars, pageVars>>

(* ---- the session of one browser and ApprovalGuard ---- *)
\* the routes App wraps in ApprovalGuard (three of them)
Routes == {"/dashboard", "/units", "/admin"}

\* every value useAuth() can hand out: user 0 is null, profile "none" is null
AuthValues ==
  [loading : BOOLEAN, user : {0} \cup UserIds, profile : {"none"} \cup approval_status,
   roles : SUBSET app_role]

\* useAuth() right after AuthProvider mounted: the session is still resolving
Resolving == [loading |-> TRUE, user |-> 0, profile |-> "none", roles |-> {}]
SignedOut == [Resolving EXCEPT !.loading = FALSE]

hasRole(ctx, role) == role \in ctx.roles
isApproved(ctx) == ctx.profile = "approved"

Rendered(kind, actions, loc) == [kind |-> kind, actions |-> actions, from |-> loc]

\* mutant: the identity is tested before the loading flag
ApprovalGuardUserFirst(ctx, loc) ==
  IF ctx.user = 0 THEN Rendered("navigate:/auth", {}, loc)
  ELSE IF ctx.loading THEN Rendered("loading", {}, "none")
  ELSE IF hasRole(ctx, "super_admin") THEN Rendered("children", {}, "none")
  ELSE IF ~isApproved(ctx) THEN Rendered("pending_approval", {"signOut"}, "none")
  ELSE Rendered("children", {}, "none")

\* mutant: the approval check comes before the super_admin bypass
ApprovalGuardApprovalFirst(ctx, loc) ==
  IF ctx.loading THEN Rendered("loading", {}, "none")
  ELSE IF ctx.user = 0 THEN Rendered("navigate:/auth", {}, loc)
  ELSE IF ~isApproved(ctx) THEN Rendered("pending_approval", {"signOut"}, "none")
  ELSE Rendered("children", {}, "none")

\* mutant: only a rejected account is blocked
ApprovalGuardRejectedOnly(ctx, loc) ==
  IF ctx.loading THEN Rendered("loading", {}, "none")
  ELSE IF ctx.user = 0 THEN Rendered("navigate:/auth", {}, loc)
  ELSE IF hasRole(ctx, "super_admin") THEN Rendered("children", {}, "none")
  ELSE IF ctx.profile = "rejected" THEN Rendered("access_denied", {"signOut"}, "none")
  ELSE Rendered("children", {}, "none")

\* ApprovalGuard: the element returned, in the order of its early returns
ApprovalGuard(ctx, loc) ==
  IF ctx.loading THEN Rendered("loading", {}, "none")
  ELSE IF ctx.user = 0 THEN Rendered("navigate:/auth", {}, loc)
  ELSE IF hasRole(ctx, "super_admin") THEN Rendered("children", {}, "none")
  ELSE IF ~isApproved(ctx) THEN Rendered("pending_approval", {"signOut"}, "none")
  ELSE IF ctx.profile = "rejected" THEN Rendered("access_denied", {"signOut"}, "none")
  ELSE Rendered("children", {}, "none")

\* the context value changes (session resolved, profile or roles fetched, sign-in):
\* every consumer of useAuth() renders again
AuthChange(ctx) ==
  /\ ctx # auth
  /\ auth' = ctx
  /\ view' = ApprovalGuard(ctx, location)
  /\ UNCHANGED <<location, accountVars, ownedVars, lastOp, adminVars, pageVars>>

\* a navigation to a guarded route renders its ApprovalGuard
Navigate(loc) ==
  /\ loc # location
  /\ location' = loc
  /\ view' = ApprovalGuard(auth, loc)
  /\ UNCHANGED <<auth, accountVars, ownedVars, lastOp, adminVars, pageVars>>

\* the Sign Out button of a blocking view: onClick={() => signOut()}
SignOut ==
  /\ "signOut" \in view.actions
  /\ auth' = SignedOut
  /\ view' = ApprovalGuard(SignedOut, location)
  /\ UNCHANGED <<location, accountVars, ownedVars, lastOp, adminVars, pageVars>>

(* ---- the Admin page ---- *)
\* the Admin component is not mounted: no list fetched, no dialog open, no call in flight
\* fetching: the caller of the fetchData() in flight (0: none)
NoPage == [render |-> "none", shown |-> <<>>, fetching |-> 0, selected |-> NoRow,
           call |-> NoRow]

\* no audit entry, no Admin page, no status changed yet
InitAdminVars ==
  /\ admin_activity_logs = <<>>
  /\ adminPage = NoPage
  /\ moves = {}

(* ---- the storage bucket and the other pages before anything happened ---- *)
\* a date is <<year, month, day>>; the empty value of a date input is <<>>
NoDate == <<>>

\* the date the sign-up wizard runs on, unless a specification draws it
Today == <<2026, 6, 15>>

\* initialSignupData
initialSignupData ==
  [fullName |-> "", email |-> "", password |-> "", confirmPassword |-> "", phone |-> "",
   dateOfBirth |-> NoDate,
   residentialAddress |-> "", city |-> "", country |-> "", postalCode |-> "",
   idType |-> "national_id", idNumber |-> "", idDocument |-> "null",
   paymentMethod |-> "", paymentProvider |-> "", billingAddress |-> "",
   securityDepositAgreed |-> FALSE, termsAccepted |-> FALSE]

\* Auth right after it mounted: step 1, nothing typed, no signUp request sent
NoSignup == [signupStep |-> 1, signupData |-> initialSignupData, request |-> NoRow]

\* no list page is mounted.  shown / options: the rows and the parent rows last fetched;
\* editing: the id of editingRequest / editingPayment (0: null); call: the write awaited;
\* fetching: the fetchData() calls in flight; errors: the destructive toasts shown so far
NoCrud == [table |-> "none", loading |-> TRUE, shown |-> <<>>, options |-> {},
           dialogOpen |-> FALSE, editing |-> 0, formData |-> NoRow, call |-> NoRow,
           fetching |-> 0, errors |-> 0]

\* Reports is not mounted.  dateRange: the range selected; shown: the range whose data
\* the charts hold; effect: the effect on [dateRange] is still to run; inflight: the
\* ranges of the fetchReportData() calls awaited, in the order they started; last: how
\* the last call ended
NoReports == [mounted |-> FALSE, loading |-> TRUE, dateRange |-> "6M", shown |-> "none",
              effect |-> FALSE, inflight |-> <<>>, last |-> "none"]

\* Receipt is not mounted.  paymentId: searchParams.get('id') (0: null); payment: the
\* row held (NoRow: null); effect: the effect on [paymentId] is still to run;
\* fetching: fetchPayment() awaits its response
NoReceipt == [mounted |-> FALSE, paymentId |-> 0, loading |-> TRUE, payment |-> NoRow,
              effect |-> FALSE, fetching |-> FALSE]

\* the bucket is empty and none of these pages is mounted
InitPageVars ==
  /\ storage_objects = {}
  /\ routerState = "none"
  /\ signup = NoSignup
  /\ today = Today
  /\ listPage = NoCrud
  /\ reports = NoReports
  /\ receipt = NoReceipt

(* ---- specification of the policy layer over the owned-resource tables ---- *)
\* every identity got property_owner at registration; super_admin is granted out of band
SeededRoles(admins) ==
  {[user_id |-> u, role |-> "property_owner"] : u \in UserIds}
    \cup {[user_id |-> u, role |-> "super_admin"] : u \in admins}

InitRls ==
  /\ auth_users = UserIds
  /\ profiles = [u \in UserIds |-> [approval_status |-> "approved", phone |-> "none"]]
  /\ \E admins \in {{}, {1}} : user_roles = SeededRoles(admins)
  /\ properties = <<>>
  /\ units = <<>>
  /\ tenants = <<>>
  /\ leases = <<>>
  /\ payments = <<>>
  /\ maintenance_requests = <<>>
  /\ lastOp = NoOp
  /\ auth = Resolving
  /\ location = "/dashboard"
  /\ view = ApprovalGuard(auth, location)
  /\ InitAdminVars
  /\ InitPageVars

NextRls ==
  \/ \E uid \in auth_users, t \in OwnedTables : SelectRows(uid, t)
  \/ \E uid \in auth_users, t \in OwnedTables : \E row \in RowsOf(t) : InsertRow(uid, t, row)
  \/ \E uid \in auth_users, t \in OwnedTables : \E id \in RowIds(t), row \in RowsOf(t) :
       UpdateRow(uid, t, id, row)
  \/ \E uid \in auth_users, t \in OwnedTables : \E id \in RowIds(t) : DeleteRow(uid, t, id)
  \/ Settle

SpecRls == InitRls /\ [][NextRls]_vars

(* ---- statements against profiles and user_roles ---- *)
\* the column values an update of a profile may carry
ProfileRows == [approval_status : approval_status, phone : {"none", "p1"}]

\* "Users can view own profile", "Super admins can view all profiles"
CanSelectProfile(uid, id) == uid = id \/ has_role(uid, "super_admin")

\* mutant: the "own profile" policy is missing, only super admins may update
CanUpdateProfileAdminOnly(uid, id) == has_role(uid, "super_admin")

\* "Users can update own profile", "Super admins can update all profiles"
CanUpdateProfile(uid, id) == uid = id \/ has_role(uid, "super_admin")

\* "Users can view own roles", "Super admins can manage roles" (FOR ALL covers SELECT)
CanSelectRole(uid, r) == uid = r.user_id \/ has_role(uid, "super_admin")

\* mutant: the manage policy is written like the view policy, on the row's user_id
CanManageRoleOwn(uid, r) == uid = r.user_id \/ has_role(uid, "super_admin")

\* "Super admins can manage roles" FOR ALL: USING, and WITH CHECK by default
CanManageRole(uid, r) == has_role(uid, "super_admin")

\* mutant: the trigger writes the profile as approved
RegisterApproved(u) ==
  /\ lastOp = NoOp
  /\ u \notin auth_users
  /\ auth_users' = auth_users \cup {u}
  /\ profiles' = (u :> [approval_status |-> "approved", phone |-> "none"]) @@ profiles
  /\ user_roles' = user_roles \cup {[user_id |-> u, role |-> "property_owner"]}
  /\ lastOp' = [NoOp EXCEPT !.op = "signup", !.table = "auth.users", !.id = u, !.n = 1]
  /\ UNCHANGED <<ownedVars, uiVars, adminVars, pageVars>>

\* auth.signUp: INSERT INTO auth.users fires on_auth_user_created -> handle_new_user()
Register(u) ==
  /\ lastOp = NoOp
  /\ u \notin auth_users
  /\ auth_users' = auth_users \cup {u}
  /\ profiles' = (u :> [approval_status |-> "pending", phone |-> "none"]) @@ profiles
  /\ user_roles' = user_roles \cup {[user_id |-> u, role |-> "property_owner"]}
  /\ lastOp' = [NoOp EXCEPT !.op = "signup", !.table = "auth.users", !.id = u, !.n = 1]
  /\ UNCHANGED <<ownedVars, uiVars, adminVars, pageVars>>

\* supabase.from('profiles').select()
SelectProfiles(uid) ==
  /\ lastOp = NoOp
  /\ lastOp' = [Req(uid, "select", "profiles") EXCEPT
                  !.rows = {id \in DOMAIN profiles : CanSelectProfile(uid, id)}]
  /\ UNCHANGED <<accountVars, ownedVars, uiVars, adminVars, pageVars>>

\* supabase.from('profiles').update(row).eq('id', id)
UpdateProfile(uid, id, row) ==
  LET hit == /\ id \in DOMAIN profiles
             /\ CanSelectProfile(uid, id)
             /\ CanUpdateProfile(uid, id)
  IN /\ lastOp = NoOp
     /\ profiles' = IF hit THEN [profiles EXCEPT ![id] = row] ELSE profiles
     /\ lastOp' = [Req(uid, "update", "profiles") EXCEPT !.id = id, !.row = row,
                     !.n = IF hit THEN 1 ELSE 0,
                     !.old_owner = IF id \in DOMAIN profiles THEN id ELSE 0]
     /\ UNCHANGED <<auth_users, user_roles, ownedVars, uiVars, adminVars, pageVars>>

\* supabase.from('user_roles').select()
SelectRoles(uid) ==
  /\ lastOp = NoOp
  /\ lastOp' = [Req(uid, "select", "user_roles") EXCEPT
                  !.rows = {r \in user_roles : CanSelectRole(uid, r)}]
  /\ UNCHANGED <<accountVars, ownedVars, uiVars, adminVars, pageVars>>

\* supabase.from('user_roles').insert([r])
InsertRole(uid, r) ==
  LET res == IF ~CanManageRole(uid, r) THEN "permission_denied"
             ELSE IF r \in user_roles THEN "unique_violation"
             ELSE IF r.user_id \notin auth_users THEN "fk_violation" ELSE "ok"
  IN /\ lastOp = NoOp
     /\ user_roles' = IF res = "ok" THEN user_roles \cup {r} ELSE user_roles
     /\ lastOp' = [Req(uid, "insert", "user_roles") EXCEPT !.id = r.user_id, !.row = r,
                     !.result = res, !.n = IF res = "ok" THEN 1 ELSE 0]
     /\ UNCHANGED <<auth_users, profiles, ownedVars, uiVars, adminVars, pageVars>>

\* supabase.from('user_roles').update({ role }).eq('user_id', ..).eq('role', ..)
UpdateRole(uid, r, role) ==
  LET hit == r \in user_roles /\ CanSelectRole(uid, r) /\ CanManageRole(uid, r)
      new == [r EXCEPT !.role = role]
      res == IF ~hit THEN "ok"
             ELSE IF new # r /\ new \in user_roles THEN "unique_violation" ELSE "ok"
  IN /\ lastOp = NoOp
     /\ user_roles' = IF hit /\ res = "ok" THEN (user_roles \ {r}) \cup {new} ELSE user_roles
     /\ lastOp' = [Req(uid, "update", "user_roles") EXCEPT !.id = r.user_id, !.row = new,
                     !.result = res, !.n = IF hit /\ res = "ok" THEN 1 ELSE 0]
     /\ UNCHANGED <<auth_users, profiles, ownedVars, uiVars, adminVars, pageVars>>

\* supabase.from('user_roles').delete().eq('user_id', ..).eq('role', ..)
DeleteRole(uid, r) ==
  LET hit == r \in user_roles /\ CanSelectRole(uid, r) /\ CanManageRole(uid, r)
  IN /\ lastOp = NoOp
     /\ user_roles' = IF hit THEN user_roles \ {r} ELSE user_roles
     /\ lastOp' = [Req(uid, "delete", "user_roles") EXCEPT !.id = r.user_id, !.row = r,
                     !.n = IF hit THEN 1 ELSE 0]
     /\ UNCHANGED <<auth_users, profiles, ownedVars, uiVars, adminVars, pageVars>>

(* ---- specification of the account tables ---- *)
RoleRows == [user_id : UserIds, role : app_role]

\* identity 1 is registered; it may have been granted super_admin out of band
InitAcc ==
  /\ auth_users = {1}
  /\ profiles = (1 :> [approval_status |-> "pending", phone |-> "none"])
  /\ \E admins \in {{}, {1}} :
       user_roles = {r \in SeededRoles(admins) : r.user_id = 1}
  /\ properties = <<>>
  /\ units = <<>>
  /\ tenants = <<>>
  /\ leases = <<>>
  /\ payments = <<>>
  /\ maintenance_requests = <<>>
  /\ lastOp = NoOp
  /\ auth = Resolving
  /\ location = "/dashboard"
  /\ view = ApprovalGuard(auth, location)
  /\ InitAdminVars
  /\ InitPageVars

NextAcc ==
  \/ \E u \in UserIds : Register(u)
  \/ \E uid \in auth_users : SelectProfiles(uid)
  \/ \E uid \in auth_users, id \in UserIds, row \in ProfileRows : UpdateProfile(uid, id, row)
  \/ \E uid \in auth_users : SelectRoles(uid)
  \/ \E uid \in auth_users, r \in RoleRows : InsertRole(uid, r)
  \/ \E uid \in auth_users, r \in RoleRows, role \in app_role : UpdateRole(uid, r, role)
  \/ \E uid \in auth_users, r \in RoleRows : DeleteRole(uid, r)
  \/ Settle

SpecAcc == InitAcc /\ [][NextAcc]_vars

(* ---- the life of an identity and of its profile ---- *)
\* "Users can insert own profile" FOR INSERT WITH CHECK
CanInsertProfile(uid, id) == uid = id

\* mutant: a FOR DELETE policy on the caller's own profile
CanDeleteProfileOwn(uid, id) == uid = id

\* no policy on profiles is FOR DELETE or FOR ALL
CanDeleteProfile(uid, id) == FALSE

\* supabase.from('profiles').insert([{ id, ... }]): the policy, then the primary key,
\* then the foreign key on auth.users
InsertProfile(uid, id, row) ==
  LET res == IF ~CanInsertProfile(uid, id) THEN "permission_denied"
             ELSE IF id \in DOMAIN profiles THEN "unique_violation"
             ELSE IF id \notin auth_users THEN "fk_violation" ELSE "ok"
  IN /\ lastOp = NoOp
     /\ profiles' = IF res = "ok" THEN (id :> row) @@ profiles ELSE profiles
     /\ lastOp' = [Req(uid, "insert", "profiles") EXCEPT !.id = id, !.row = row,
                     !.result = res, !.n = IF res = "ok" THEN 1 ELSE 0]
     /\ UNCHANGED <<auth_users, user_roles, ownedVars, uiVars, adminVars, pageVars>>

\* supabase.from('profiles').update({ id: newid }).eq('id', id): the new row is checked
\* against the UPDATE policies (their USING, no WITH CHECK given), then the keys
UpdateProfileId(uid, id, newid) ==
  LET hit == /\ id \in DOMAIN profiles
             /\ CanSelectProfile(uid, id)
             /\ CanUpdateProfile(uid, id)
      res == IF ~hit THEN "ok"
             ELSE IF ~CanUpdateProfile(uid, newid) THEN "permission_denied"
             ELSE IF newid # id /\ newid \in DOMAIN profiles THEN "unique_violation"
             ELSE IF newid \notin auth_users THEN "fk_violation" ELSE "ok"
      rest == Restrict(profiles, DOMAIN profiles \ {id})
  IN /\ lastOp = NoOp
     /\ profiles' = IF hit /\ res = "ok" THEN (newid :> profiles[id]) @@ rest ELSE profiles
     /\ lastOp' = [Req(uid, "update", "profiles") EXCEPT !.id = id,
                     !.result = res, !.n = IF hit /\ res = "ok" THEN 1 ELSE 0,
                     !.old_owner = IF id \in DOMAIN profiles THEN id ELSE 0,
                     !.new_owner = newid]
     /\ UNCHANGED <<auth_users, user_roles, ownedVars, uiVars, adminVars, pageVars>>

\* supabase.from('profiles').delete().eq('id', id)
DeleteProfile(uid, id) ==
  LET hit == /\ id \in DOMAIN profiles
             /\ CanSelectProfile(uid, id)
             /\ CanDeleteProfile(uid, id)
  IN /\ lastOp = NoOp
     /\ profiles' = IF hit THEN Restrict(profiles, DOMAIN profiles \ {id}) ELSE profiles
     /\ lastOp' = [Req(uid, "delete", "profiles") EXCEPT !.id = id,
                     !.n = IF hit THEN 1 ELSE 0,
                     !.old_owner = IF id \in DOMAIN profiles THEN id ELSE 0]
     /\ UNCHANGED <<auth_users, user_roles, ownedVars, uiVars, adminVars, pageVars>>

\* the identity provider deletes identity u: ON DELETE CASCADE removes its profile, its
\* role rows, its properties and tenants and everything below them
DeleteUser(u) ==
  LET p == {x \in DOMAIN properties : properties[x].owner_id # u}
      un == {x \in DOMAIN units : units[x].property_id \in p}
      tn == {x \in DOMAIN tenants : tenants[x].owner_id # u}
      l == {x \in DOMAIN leases : leases[x].unit_id \in un /\ leases[x].tenant_id \in tn}
      py == {x \in DOMAIN payments : payments[x].lease_id \in l}
      m == {x \in DOMAIN maintenance_requests : maintenance_requests[x].unit_id \in un}
  IN /\ lastOp = NoOp
     /\ u \in auth_users
     /\ auth_users' = auth_users \ {u}
     /\ profiles' = Restrict(profiles, DOMAIN profiles \ {u})
     /\ user_roles' = {r \in user_roles : r.user_id # u}
     /\ properties' = Restrict(properties, p)
     /\ units' = Restrict(units, un)
     /\ tenants' = Restrict(tenants, tn)
     /\ leases' = Restrict(leases, l)
     /\ payments' = Restrict(payments, py)
     /\ maintenance_requests' = Restrict(maintenance_requests, m)
     /\ lastOp' = [NoOp EXCEPT !.op = "delete_user", !.table = "auth.users", !.id = u, !.n = 1]
     /\ UNCHANGED <<uiVars, adminVars, pageVars>>

(* ---- specification of the life of identities ---- *)
NextLife ==
  \/ \E u \in UserIds : Register(u)
  \/ \E u \in UserIds : DeleteUser(u)
  \/ \E uid \in auth_users, id \in UserIds, row \in ProfileRows : InsertProfile(uid, id, row)
  \/ \E uid \in auth_users, id \in UserIds, row \in ProfileRows : UpdateProfile(uid, id, row)
  \/ \E uid \in auth_users, id \in UserIds, newid \in UserIds : UpdateProfileId(uid, id, newid)
  \/ \E uid \in auth_users, id \in UserIds : DeleteProfile(uid, id)
  \/ Settle

SpecLife == InitAcc /\ [][NextLife]_vars

(* ---- statements against admin_activity_logs ---- *)
LogIds == 1..MaxRows

\* the entries a statement may carry (the columns have no foreign key)
LogRows ==
  {[admin_id |-> a, action |-> "user_" \o st, target_user_id |-> t, details |-> <<"pending", st>>] :
     a \in UserIds, t \in UserIds, st \in {"approved", "rejected"}}

\* "Super admins can view all activity logs" FOR SELECT
CanSelectLog(uid, row) == has_role(uid, "super_admin")

\* "Super admins can insert activity logs" FOR INSERT WITH CHECK
LogWithCheck(uid, row) == has_role(uid, "super_admin")

\* mutant: the log policies are one FOR ALL policy of the super_admin
CanModifyLogAdmin(uid, row) == has_role(uid, "super_admin")

\* row level security is enabled and no policy is FOR UPDATE or FOR DELETE
CanModifyLog(uid, row) == FALSE

\* supabase.from('admin_activity_logs').select()
SelectLogs(uid) ==
  /\ lastOp = NoOp
  /\ lastOp' = [Req(uid, "select", "admin_activity_logs") EXCEPT
                  !.rows = {id \in DOMAIN admin_activity_logs :
                              CanSelectLog(uid, admin_activity_logs[id])}]
  /\ UNCHANGED <<accountVars, ownedVars, uiVars, adminVars, pageVars>>

\* supabase.from('admin_activity_logs').insert([row])
InsertLog(uid, row) ==
  LET free == LogIds \ DOMAIN admin_activity_logs
      id == CHOOSE i \in free : \A j \in free : i <= j
      ok == LogWithCheck(uid, row)
  IN /\ lastOp = NoOp
     /\ ok => free # {}
     /\ admin_activity_logs' = IF ok THEN (id :> row) @@ admin_activity_logs
                               ELSE admin_activity_logs
     /\ lastOp' = [Req(uid, "insert", "admin_activity_logs") EXCEPT
                     !.id = IF ok THEN id ELSE 0, !.row = row,
                     !.result = IF ok THEN "ok" ELSE "permission_denied",
                     !.n = IF ok THEN 1 ELSE 0]
     /\ UNCHANGED <<accountVars, ownedVars, uiVars, adminPage, moves, pageVars>>

\* supabase.from('admin_activity_logs').update(row).eq('id', id)
UpdateLog(uid, id, row) ==
  LET hit == /\ id \in DOMAIN admin_activity_logs
             /\ CanSelectLog(uid, admin_activity_logs[id])
             /\ CanModifyLog(uid, admin_activity_logs[id])
  IN /\ lastOp = NoOp
     /\ admin_activity_logs' = IF hit THEN [admin_activity_logs EXCEPT ![id] = row]
                               ELSE admin_activity_logs
     /\ lastOp' = [Req(uid, "update", "admin_activity_logs") EXCEPT
                     !.id = id, !.row = row, !.n = IF hit THEN 1 ELSE 0]
     /\ UNCHANGED <<accountVars, ownedVars, uiVars, adminPage, moves, pageVars>>

\* supabase.from('admin_activity_logs').delete().eq('id', id)
DeleteLog(uid, id) ==
  LET hit == /\ id \in DOMAIN admin_activity_logs
             /\ CanSelectLog(uid, admin_activity_logs[id])
             /\ CanModifyLog(uid, admin_activity_logs[id])
  IN /\ lastOp = NoOp
     /\ admin_activity_logs' = IF hit THEN Restrict(admin_activity_logs,
                                                    DOMAIN admin_activity_logs \ {id})
                               ELSE admin_activity_logs
     /\ lastOp' = [Req(uid, "delete", "admin_activity_logs") EXCEPT
                     !.id = id, !.n = IF hit THEN 1 ELSE 0]
     /\ UNCHANGED <<accountVars, ownedVars, uiVars, adminPage, moves, pageVars>>

(* ---- specification of the audit log ---- *)
\* two identities are registered; identity 1 was granted super_admin out of band
InitLog ==
  /\ auth_users = UserIds
  /\ profiles = [u \in UserIds |-> [approval_status |-> "approved", phone |-> "none"]]
  /\ user_roles = SeededRoles({1})
  /\ properties = <<>>
  /\ units = <<>>
  /\ tenants = <<>>
  /\ leases = <<>>
  /\ payments = <<>>
  /\ maintenance_requests = <<>>
  /\ lastOp = NoOp
  /\ auth = Resolving
  /\ location = "/dashboard"
  /\ view = ApprovalGuard(auth, location)
  /\ InitAdminVars
  /\ InitPageVars

NextLog ==
  \/ \E uid \in auth_users : SelectLogs(uid)
  \/ \E uid \in auth_users, row \in LogRows : InsertLog(uid, row)
  \/ \E uid \in auth_users, id \in LogIds, row \in LogRows : UpdateLog(uid, id, row)
  \/ \E uid \in auth_users, id \in LogIds : DeleteLog(uid, id)
  \/ Settle

SpecLog == InitLog /\ [][NextLog]_vars

(* ---- the Admin page and its approval workflow ---- *)
\* useAuth() once the session of identity u has resolved and its profile and roles are loaded
SessionOf(u) ==
  [loading |-> FALSE, user |-> u, profile |-> profiles[u].approval_status,
   roles |-> {r.role : r \in {x \in user_roles : x.user_id = u}}]

\* the values useAuth() takes for the identities registered
Sessions == {Resolving, SignedOut} \cup {SessionOf(u) : u \in auth_users}

\* mutant: the super_admin test is missing
AdminRenderNoGate(ctx) == IF ctx.loading THEN "null" ELSE "page"

\* Admin: if (authLoading) return null; if (!hasRole('super_admin')) return <Navigate ../>
AdminRender(ctx) ==
  IF ctx.loading THEN "null"
  ELSE IF ~hasRole(ctx, "super_admin") THEN "navigate:/dashboard"
  ELSE "page"

\* mutant: a third button puts the profile back to pending
OfferedWithReset(status) == approval_status \ {status}

\* the buttons of a row: Approve unless approved, Reject unless rejected
Offered(status) == {"approved", "rejected"} \ {status}

\* the approve / reject controls the page shows: per listed row, and in the open dialog
Controls(page) ==
  IF page.render # "page" THEN {}
  ELSE {c \in (DOMAIN page.shown) \X approval_status : c[2] \in Offered(page.shown[c[1]])}
         \cup (IF page.selected = NoRow THEN {}
               ELSE {<<page.selected.id, st>> : st \in Offered(page.selected.approval_status)})

\* the component leaves the screen; a call in flight is still answered
Unmounted(page) == [NoPage EXCEPT !.call = page.call]

\* the context value changes: ApprovalGuard and, when mounted, Admin render again, and
\* the effect on [hasRole] runs again
SessionChange(ctx) ==
  /\ ctx # auth
  /\ auth' = ctx
  /\ view' = ApprovalGuard(ctx, location)
  /\ adminPage' =
       IF adminPage.render = "none" THEN adminPage
       ELSE IF ApprovalGuard(ctx, location).kind # "children" THEN Unmounted(adminPage)
       ELSE [adminPage EXCEPT !.render = AdminRender(ctx),
                              !.fetching = IF /\ hasRole(ctx, "super_admin")
                                              /\ ~hasRole(auth, "super_admin")
                                           THEN ctx.user ELSE @]
  /\ UNCHANGED <<location, accountVars, ownedVars, lastOp, admin_activity_logs, moves, pageVars>>

\* the route /admin is requested
OpenAdmin ==
  /\ adminPage.render = "none"
  /\ Navigate("/admin")

\* Admin mounts under its ApprovalGuard: first render, then useEffect
MountAdmin ==
  /\ location = "/admin" /\ view.kind = "children" /\ adminPage.render = "none"
  /\ adminPage' = [adminPage EXCEPT !.render = AdminRender(auth),
                                    !.fetching = IF hasRole(auth, "super_admin")
                                                 THEN auth.user ELSE 0]
  /\ UNCHANGED <<accountVars, ownedVars, uiVars, lastOp, admin_activity_logs, moves, pageVars>>

\* <Navigate to="/dashboard" replace />
AdminRedirect ==
  /\ adminPage.render = "navigate:/dashboard"
  /\ location' = "/dashboard"
  /\ view' = ApprovalGuard(auth, "/dashboard")
  /\ adminPage' = Unmounted(adminPage)
  /\ UNCHANGED <<auth, accountVars, ownedVars, lastOp, admin_activity_logs, moves, pageVars>>

\* fetchData: the profiles the caller may read become the list shown
fetchData ==
  /\ adminPage.fetching # 0
  /\ adminPage' = [adminPage EXCEPT
       !.fetching = 0,
       !.shown = [id \in {x \in DOMAIN profiles : CanSelectProfile(adminPage.fetching, x)} |->
                    profiles[id].approval_status]]
  /\ UNCHANGED <<accountVars, ownedVars, uiVars, lastOp, admin_activity_logs, moves, pageVars>>

\* the View button of a row: setSelectedProfile(profile)
ViewProfile(id) ==
  /\ adminPage.render = "page" /\ id \in DOMAIN adminPage.shown
  /\ adminPage.selected # [id |-> id, approval_status |-> adminPage.shown[id]]
  /\ adminPage' = [adminPage EXCEPT
       !.selected = [id |-> id, approval_status |-> adminPage.shown[id]]]
  /\ UNCHANGED <<accountVars, ownedVars, uiVars, lastOp, admin_activity_logs, moves, pageVars>>

\* updateApproval up to its await: the one statement it sends, which the service applies
\* or which fails in transit.  dialog: the click came from the dialog, which also sets
\* selectedProfile to the new status
updateApproval(userId, status, dialog, fails) ==
  LET uid == auth.user
      hit == /\ userId \in DOMAIN profiles
             /\ CanSelectProfile(uid, userId)
             /\ CanUpdateProfile(uid, userId)
      applied == hit /\ ~fails
      old == IF userId \in DOMAIN profiles THEN profiles[userId].approval_status ELSE "none"
  IN /\ lastOp = NoOp
     /\ adminPage.render = "page"
     /\ profiles' = IF applied THEN [profiles EXCEPT ![userId].approval_status = status]
                    ELSE profiles
     /\ lastOp' = [Req(uid, "update", "profiles") EXCEPT
                     !.id = userId, !.row = [approval_status |-> status],
                     !.result = IF fails THEN "network_error" ELSE "ok",
                     !.n = IF applied THEN 1 ELSE 0,
                     !.old_owner = IF userId \in DOMAIN profiles THEN userId ELSE 0]
     /\ adminPage' = [adminPage EXCEPT
                        !.call = [id |-> userId, from |-> old, to |-> status, dialog |-> dialog],
                        !.selected = IF dialog THEN [@ EXCEPT !.approval_status = status] ELSE @]
     /\ UNCHANGED <<auth_users, user_roles, ownedVars, uiVars, admin_activity_logs, pageVars>>

\* a click on one of the controls shown
ClickControl(userId, status, dialog) ==
  /\ <<userId, status>> \in Controls(adminPage)
  /\ IF dialog
     THEN /\ adminPage.selected # NoRow
          /\ adminPage.selected.id = userId
          /\ status \in Offered(adminPage.selected.approval_status)
     ELSE userId \in DOMAIN adminPage.shown /\ status \in Offered(adminPage.shown[userId])
  /\ \E fails \in BOOLEAN : updateApproval(userId, status, dialog, fails)

\* updateApproval after its await: throw on error (the catch only toasts), else toast
\* and fetchData(); the fetchData() of a component no longer on screen changes nothing
updateApprovalDone ==
  /\ adminPage.call # NoRow
  /\ lastOp # NoOp
  /\ lastOp' = NoOp
  /\ adminPage' = [adminPage EXCEPT
       !.call = NoRow,
       !.fetching = IF lastOp.result = "ok" /\ adminPage.render = "page"
                    THEN auth.user ELSE @]
  /\ UNCHANGED <<accountVars, ownedVars, uiVars, admin_activity_logs, moves, pageVars>>

\* the response of a statement sent outside the Admin page
SettleOther ==
  /\ adminPage.call = NoRow
  /\ Settle

(* ---- specification of the Admin page ---- *)
\* two identities have registered; identity 1 was granted super_admin out of band
InitAdmin ==
  /\ auth_users = UserIds
  /\ profiles = [u \in UserIds |-> [approval_status |-> "pending", phone |-> "none"]]
  /\ user_roles = SeededRoles({1})
  /\ properties = <<>>
  /\ units = <<>>
  /\ tenants = <<>>
  /\ leases = <<>>
  /\ payments = <<>>
  /\ maintenance_requests = <<>>
  /\ lastOp = NoOp
  /\ auth = Resolving
  /\ location = "/admin"
  /\ view = ApprovalGuard(auth, location)
  /\ InitAdminVars
  /\ InitPageVars

NextAdmin ==
  \/ \E ctx \in Sessions : SessionChange(ctx)
  \/ OpenAdmin
  \/ MountAdmin
  \/ AdminRedirect
  \/ fetchData
  \/ \E id \in UserIds : ViewProfile(id)
  \/ \E id \in UserIds, status \in approval_status, dialog \in BOOLEAN :
       ClickControl(id, status, dialog) /\ UNCHANGED moves
  \/ updateApprovalDone
  \/ \E uid \in auth_users, id \in UserIds, row \in ProfileRows :
       \* sent past the page, by a caller without super_admin, for another's status
       /\ ~has_role(uid, "super_admin") /\ id # uid /\ row.phone = "none"
       /\ UpdateProfile(uid, id, row)
  \/ SettleOther

SpecAdmin == InitAdmin /\ [][NextAdmin]_vars

(* ---- specification of the approval workflow ---- *)
\* the status changes a workflow step made, added to the history
Recorded ==
  moves' = moves \cup {<<profiles[u].approval_status, profiles'[u].approval_status>> :
                         u \in {x \in DOMAIN profiles :
                                  profiles'[x].approval_status # profiles[x].approval_status}}

\* the super_admin, identity 1, has signed in and opened /admin
InitWorkflow ==
  /\ auth_users = UserIds
  /\ profiles = [u \in UserIds |-> [approval_status |-> "pending", phone |-> "none"]]
  /\ user_roles = SeededRoles({1})
  /\ properties = <<>>
  /\ units = <<>>
  /\ tenants = <<>>
  /\ leases = <<>>
  /\ payments = <<>>
  /\ maintenance_requests = <<>>
  /\ lastOp = NoOp
  /\ auth = SessionOf(1)
  /\ location = "/admin"
  /\ view = ApprovalGuard(auth, location)
  /\ admin_activity_logs = <<>>
  /\ adminPage = NoPage
  /\ moves = {}
  /\ InitPageVars

NextWorkflow ==
  \/ MountAdmin
  \/ fetchData
  \/ \E id \in UserIds : ViewProfile(id)
  \/ \E id \in UserIds, status \in approval_status, dialog \in BOOLEAN :
       ClickControl(id, status, dialog) /\ Recorded
  \/ updateApprovalDone

SpecWorkflow == InitWorkflow /\ [][NextWorkflow]_vars

(* ---- specification of a user's session while a super_admin changes statuses ---- *)
\* a navigation to a guarded route: the guard of the route is evaluated on the identity's
\* current roles and approval_status
Navigation(loc) ==
  /\ loc # location
  /\ location' = loc
  /\ auth' = IF auth.user \in auth_users THEN SessionOf(auth.user) ELSE auth
  /\ view' = ApprovalGuard(auth', loc)
  /\ UNCHANGED <<accountVars, ownedVars, lastOp, adminVars, pageVars>>

\* updateApproval called by the super_admin in another browser: the statement it sends
ApprovalUpdate(admin, userId, status) ==
  /\ has_role(admin, "super_admin")
  /\ userId \in DOMAIN profiles
  /\ UpdateProfile(admin, userId, [profiles[userId] EXCEPT !.approval_status = status])

\* two identities have registered; identity 1 was granted super_admin out of band
InitSession ==
  /\ auth_users = UserIds
  /\ profiles = [u \in UserIds |-> [approval_status |-> "pending", phone |-> "none"]]
  /\ user_roles = SeededRoles({1})
  /\ properties = <<>>
  /\ units = <<>>
  /\ tenants = <<>>
  /\ leases = <<>>
  /\ payments = <<>>
  /\ maintenance_requests = <<>>
  /\ lastOp = NoOp
  /\ auth = Resolving
  /\ location = "/dashboard"
  /\ view = ApprovalGuard(auth, location)
  /\ InitAdminVars
  /\ InitPageVars

NextSession ==
  \/ \E ctx \in Sessions : AuthChange(ctx)
  \/ \E loc \in Routes : Navigation(loc)
  \/ SignOut
  \/ \E admin \in auth_users, id \in UserIds, status \in Offered("pending") :
       ApprovalUpdate(admin, id, status)
  \/ Settle

SpecSession == InitSession /\ [][NextSession]_vars

(* ---- specification of the guard ---- *)
InitGuard ==
  /\ auth_users = UserIds
  /\ profiles = [u \in UserIds |-> [approval_status |-> "pending", phone |-> "none"]]
  /\ user_roles = SeededRoles({1})
  /\ properties = <<>>
  /\ units = <<>>
  /\ tenants = <<>>
  /\ leases = <<>>
  /\ payments = <<>>
  /\ maintenance_requests = <<>>
  /\ lastOp = NoOp
  /\ auth = Resolving
  /\ location \in Routes
  /\ view = ApprovalGuard(auth, location)
  /\ InitAdminVars
  /\ InitPageVars

NextGuard ==
  \/ \E ctx \in AuthValues : AuthChange(ctx)
  \/ \E loc \in Routes : Navigate(loc)
  \/ SignOut

SpecGuard == InitGuard /\ [][NextGuard]_vars

(* ---- the id-documents bucket ---- *)
\* storage.buckets after the migration: one private bucket
Buckets == {"id-documents"}

\* the file names Date.now() and the extension give, and the object names built from them:
\* a name is its path split at "/"
FileNames == {"1700.png", "1701.pdf"}
ObjectNames ==
  {<<f>> : f \in FileNames} \cup {<<ToString(u), f>> : u \in UserIds, f \in FileNames}

\* storage.foldername(name): the path segments before the file name
foldername(name) == SubSeq(name, 1, Len(name) - 1)

\* auth.uid()::text = (storage.foldername(name))[1]; NULL = ... is not true
OwnPrefix(uid, name) == Len(foldername(name)) >= 1 /\ ToString(uid) = foldername(name)[1]

\* mutant: the INSERT policy tests the bucket only
CanUploadObjectAnyPrefix(uid, bucket_id, name) == uid # 0 /\ bucket_id = "id-documents"

\* "Users can upload own ID documents" FOR INSERT TO authenticated WITH CHECK
\* (caller 0 is the anon role, to which no policy applies)
CanUploadObject(uid, bucket_id, name) ==
  uid # 0 /\ bucket_id = "id-documents" /\ OwnPrefix(uid, name)

\* "Users can view own ID documents", "Super admins can view all ID documents" FOR SELECT
CanSelectObject(uid, obj) ==
  \/ uid # 0 /\ obj.bucket_id = "id-documents" /\ OwnPrefix(uid, obj.name)
  \/ uid # 0 /\ obj.bucket_id = "id-documents" /\ has_role(uid, "super_admin")

\* no policy on storage.objects is FOR UPDATE or FOR DELETE
CanModifyObject(uid, obj) == FALSE

\* supabase.storage.from(bucket_id).upload(name, file): an INSERT into storage.objects
Upload(uid, bucket_id, name) ==
  LET res == IF bucket_id \notin Buckets THEN "bucket_not_found"
             ELSE IF ~CanUploadObject(uid, bucket_id, name) THEN "permission_denied"
             ELSE IF \E o \in storage_objects : o.bucket_id = bucket_id /\ o.name = name
                  THEN "duplicate"
             ELSE "ok"
  IN /\ lastOp = NoOp
     /\ storage_objects' =
          IF res = "ok"
          THEN storage_objects \cup {[bucket_id |-> bucket_id, name |-> name, owner |-> uid]}
          ELSE storage_objects
     /\ lastOp' = [Req(uid, "upload", "storage.objects") EXCEPT
                     !.row = [bucket_id |-> bucket_id, name |-> name],
                     !.result = res, !.n = IF res = "ok" THEN 1 ELSE 0]
     /\ UNCHANGED <<accountVars, ownedVars, uiVars, adminVars, routerState, signup, today,
                    listPage, reports, receipt>>

\* handleSignup, step 2: the file goes to `${authData.user.id}/${Date.now()}.${fileExt}`;
\* session: signUp returned a session (otherwise the request is sent as anon)
UploadIdDocument(u, f, session) ==
  /\ u \in auth_users
  /\ Upload(IF session THEN u ELSE 0, "id-documents", <<ToString(u), f>>)

\* supabase.storage.from(bucket_id).download(name): a SELECT on storage.objects
Download(uid, bucket_id, name) ==
  LET hit == {o \in storage_objects :
                o.bucket_id = bucket_id /\ o.name = name /\ CanSelectObject(uid, o)}
  IN /\ lastOp = NoOp
     /\ lastOp' = [Req(uid, "download", "storage.objects") EXCEPT
                     !.row = [bucket_id |-> bucket_id, name |-> name],
                     !.result = IF hit = {} THEN "not_found" ELSE "ok",
                     !.rows = hit]
     /\ UNCHANGED <<accountVars, ownedVars, uiVars, adminVars, pageVars>>

\* supabase.storage.from(bucket_id).remove([name]): a DELETE on storage.objects
RemoveObject(uid, bucket_id, name) ==
  LET hit == {o \in storage_objects :
                /\ o.bucket_id = bucket_id /\ o.name = name
                /\ CanSelectObject(uid, o) /\ CanModifyObject(uid, o)}
  IN /\ lastOp = NoOp
     /\ storage_objects' = storage_objects \ hit
     /\ lastOp' = [Req(uid, "remove", "storage.objects") EXCEPT
                     !.row = [bucket_id |-> bucket_id, name |-> name],
                     !.n = Cardinality(hit)]
     /\ UNCHANGED <<accountVars, ownedVars, uiVars, adminVars, routerState, signup, today,
                    listPage, reports, receipt>>

(* ---- specification of the id-documents bucket ---- *)
\* the identities have registered; identity 1 was granted super_admin out of band
InitStorage == InitLog

NextStorage ==
  \/ \E u \in auth_users, f \in FileNames, session \in BOOLEAN : UploadIdDocument(u, f, session)
  \/ \E uid \in {0} \cup auth_users, b \in Buckets \cup {"avatars"}, name \in ObjectNames :
       Upload(uid, b, name)
  \/ \E uid \in {0} \cup auth_users, b \in Buckets, name \in ObjectNames : Download(uid, b, name)
  \/ \E uid \in {0} \cup auth_users, b \in Buckets, name \in ObjectNames :
       RemoveObject(uid, b, name)
  \/ Settle

SpecStorage == InitStorage /\ [][NextStorage]_vars

(* ---- the list pages: Maintenance and Payments ---- *)
MaxFetches == 2   \* fetchData() calls in flight at a time
MaxErrors == 2    \* failed writes per mounted page

ListTables == {"maintenance_requests", "payments"}

\* the table of the second query of fetchData, which fills the form's select
ParentTable(t) == IF t = "maintenance_requests" THEN "units" ELSE "leases"

MaintenanceStatus == {"pending", "in_progress", "resolved"}
PaymentStatus == {"pending", "paid"}

\* the form state of resetForm(); unit_id / lease_id 0 is ''
initialForm(t) ==
  IF t = "maintenance_requests" THEN [unit_id |-> 0, status |-> "pending"]
  ELSE [lease_id |-> 0, status |-> "pending"]

\* the values the form's selects can give it: a parent row listed, one of the statuses
FormsOf(t, options) ==
  IF t = "maintenance_requests" THEN [unit_id : options, status : MaintenanceStatus]
  ELSE [lease_id : options, status : PaymentStatus]

\* mutant: handleSubmit sends the form without resolved_at
submitDataOmitsResolvedAt(t, formData, uid) ==
  IF t = "maintenance_requests"
  THEN [unit_id |-> formData.unit_id, status |-> formData.status, reported_by |-> uid]
  ELSE formData

\* handleSubmit: const submitData = {...formData, ...}
submitData(t, formData, uid) ==
  IF t = "maintenance_requests"
  THEN [unit_id |-> formData.unit_id, status |-> formData.status, reported_by |-> uid,
        resolved_at |-> IF formData.status = "resolved" THEN "timestamp" ELSE "null"]
  ELSE formData

\* the column defaults of a table: what an INSERT leaves out, and a row with no parent
Defaults(t) ==
  IF t = "maintenance_requests"
  THEN [unit_id |-> 0, status |-> "pending", reported_by |-> 0, resolved_at |-> "null"]
  ELSE [lease_id |-> 0, status |-> "pending"]

\* the row an INSERT or UPDATE of some columns leaves: the columns given replace the old
Patched(old, cols) ==
  [c \in DOMAIN old |-> IF c \in DOMAIN cols THEN cols[c] ELSE old[c]]

\* mutant: fetchData() is started together with the write
SentWithRefetch(p, call) == [p EXCEPT !.call = call, !.fetching = @ + 1]

\* a handler up to its await: const { error } = await supabase.from(t)...
Sent(p, call) == [p EXCEPT !.call = call]

\* mutant: the error path closes the dialog and resets the form as well
AfterWriteAlwaysCloses(p, res) ==
  LET closed == IF p.call.handler = "handleSubmit"
                THEN [p EXCEPT !.dialogOpen = FALSE, !.editing = 0,
                               !.formData = initialForm(p.table)]
                ELSE p
  IN IF res = "ok" THEN [closed EXCEPT !.call = NoRow, !.fetching = @ + 1]
     ELSE [closed EXCEPT !.call = NoRow, !.errors = @ + 1]

\* a handler after its await: if (error) throw error, caught by the destructive toast;
\* else the success toast, for handleSubmit setDialogOpen(false) and resetForm(), and
\* fetchData()
AfterWrite(p, res) ==
  LET closed == IF p.call.handler = "handleSubmit"
                THEN [p EXCEPT !.dialogOpen = FALSE, !.editing = 0,
                               !.formData = initialForm(p.table)]
                ELSE p
  IN IF res = "ok" THEN [closed EXCEPT !.call = NoRow, !.fetching = @ + 1]
     ELSE [p EXCEPT !.call = NoRow, !.errors = @ + 1]

\* the component mounts: useEffect(() => { fetchData(); }, [])
MountList(t) ==
  /\ listPage = NoCrud /\ auth.user \in auth_users
  /\ listPage' = [NoCrud EXCEPT !.table = t, !.formData = initialForm(t), !.fetching = 1]
  /\ UNCHANGED <<accountVars, ownedVars, uiVars, lastOp, adminVars, storage_objects,
                 routerState, signup, today, reports, receipt>>

\* fetchData when both responses are in: on an error of the first query nothing is set,
\* an error of the second query leaves the select empty; finally setLoading(false)
fetchListDone(res) ==
  LET t == listPage.table
      seen(tb) == {id \in DOMAIN Tbl(tb) : CanSelect(tb, auth.user, Tbl(tb)[id])}
  IN /\ listPage.fetching > 0
     /\ listPage' = [listPage EXCEPT
          !.fetching = @ - 1,
          !.loading = FALSE,
          !.shown = IF res = "list_error" THEN @ ELSE Restrict(Tbl(t), seen(t)),
          !.options = IF res = "list_error" THEN @
                      ELSE IF res = "options_error" THEN {} ELSE seen(ParentTable(t))]
     /\ UNCHANGED <<accountVars, ownedVars, uiVars, lastOp, adminVars, storage_objects,
                    routerState, signup, today, reports, receipt>>

\* the list and its row menus are on screen
ListShown == listPage.table # "none" /\ listPage.options # {} /\ ~listPage.loading

\* the New button (disabled while the select has no option): onOpenChange(true)
OpenDialog ==
  /\ listPage.table # "none" /\ listPage.options # {} /\ ~listPage.dialogOpen
  /\ listPage' = [listPage EXCEPT !.dialogOpen = TRUE]
  /\ UNCHANGED <<accountVars, ownedVars, uiVars, lastOp, adminVars, storage_objects,
                 routerState, signup, today, reports, receipt>>

\* a select of the form: setFormData({ ...formData, field: v })
SetFormData(f) ==
  /\ listPage.dialogOpen /\ f # listPage.formData
  /\ \E c \in DOMAIN f : \A d \in DOMAIN f \ {c} : f[d] = listPage.formData[d]
  /\ listPage' = [listPage EXCEPT !.formData = f]
  /\ UNCHANGED <<accountVars, ownedVars, uiVars, lastOp, adminVars, storage_objects,
                 routerState, signup, today, reports, receipt>>

\* the Cancel button: setDialogOpen(false), which does not run resetForm()
CancelDialog ==
  /\ listPage.dialogOpen
  /\ listPage' = [listPage EXCEPT !.dialogOpen = FALSE]
  /\ UNCHANGED <<accountVars, ownedVars, uiVars, lastOp, adminVars, storage_objects,
                 routerState, signup, today, reports, receipt>>

\* the dialog is dismissed: onOpenChange(false) runs setDialogOpen(false) and resetForm()
DismissDialog ==
  /\ listPage.dialogOpen
  /\ listPage' = [listPage EXCEPT !.dialogOpen = FALSE, !.editing = 0,
                                  !.formData = initialForm(listPage.table)]
  /\ UNCHANGED <<accountVars, ownedVars, uiVars, lastOp, adminVars, storage_objects,
                 routerState, signup, today, reports, receipt>>

\* the Edit item of a row
handleEdit(id) ==
  /\ ListShown /\ ~listPage.dialogOpen /\ id \in DOMAIN listPage.shown
  /\ listPage' = [listPage EXCEPT
       !.editing = id,
       !.formData = [c \in DOMAIN initialForm(listPage.table) |-> listPage.shown[id][c]],
       !.dialogOpen = TRUE]
  /\ UNCHANGED <<accountVars, ownedVars, uiVars, lastOp, adminVars, storage_objects,
                 routerState, signup, today, reports, receipt>>

\* a write may be started: none is awaited, and the counters have room
MayWrite ==
  /\ listPage.call = NoRow /\ lastOp = NoOp
  /\ listPage.fetching < MaxFetches /\ listPage.errors < MaxErrors

\* the form is submitted: update of editingRequest, or insert
handleSubmit ==
  LET t == listPage.table
      row == submitData(t, listPage.formData, auth.user)
  IN /\ listPage.dialogOpen /\ MayWrite
     /\ listPage.editing = 0 => FreeIds(t) # {}
     /\ listPage' = Sent(listPage,
                         [handler |-> "handleSubmit",
                          op |-> IF listPage.editing # 0 THEN "update" ELSE "insert",
                          id |-> listPage.editing, row |-> row])
     /\ UNCHANGED <<accountVars, ownedVars, uiVars, lastOp, adminVars, storage_objects,
                    routerState, signup, today, reports, receipt>>

\* the Delete item of a row, confirmed
handleDelete(id) ==
  /\ ListShown /\ ~listPage.dialogOpen /\ id \in DOMAIN listPage.shown /\ MayWrite
  /\ listPage' = Sent(listPage, [handler |-> "handleDelete", op |-> "delete", id |-> id,
                                 row |-> NoRow])
  /\ UNCHANGED <<accountVars, ownedVars, uiVars, lastOp, adminVars, storage_objects,
                 routerState, signup, today, reports, receipt>>

\* the Mark Resolved item, shown for a row whose status is not resolved
handleResolve(id) ==
  /\ listPage.table = "maintenance_requests"
  /\ ListShown /\ ~listPage.dialogOpen /\ id \in DOMAIN listPage.shown /\ MayWrite
  /\ listPage.shown[id].status # "resolved"
  /\ listPage' = Sent(listPage, [handler |-> "handleResolve", op |-> "update", id |-> id,
                                 row |-> [status |-> "resolved", resolved_at |-> "timestamp"]])
  /\ UNCHANGED <<accountVars, ownedVars, uiVars, lastOp, adminVars, storage_objects,
                 routerState, signup, today, reports, receipt>>

\* the service runs the statement awaited
ServeWrite ==
  LET t == listPage.table
      c == listPage.call
      old == IF c.id \in DOMAIN Tbl(t) THEN Tbl(t)[c.id] ELSE Defaults(t)
  IN /\ listPage.call # NoRow
     /\ CASE c.op = "insert" -> InsertRow(auth.user, t, Patched(Defaults(t), c.row))
          [] c.op = "update" -> UpdateRow(auth.user, t, c.id, Patched(old, c.row))
          [] c.op = "delete" -> DeleteRow(auth.user, t, c.id)

\* the statement awaited fails in transit
LoseWrite ==
  /\ listPage.call # NoRow /\ lastOp = NoOp
  /\ lastOp' = [Req(auth.user, listPage.call.op, listPage.table) EXCEPT
                  !.id = listPage.call.id, !.result = "network_error"]
  /\ UNCHANGED <<accountVars, ownedVars, uiVars, adminVars, pageVars>>

\* the handler takes the response of its statement
WriteDone ==
  /\ listPage.call # NoRow /\ lastOp # NoOp
  /\ lastOp' = NoOp
  /\ listPage' = AfterWrite(listPage, lastOp.result)
  /\ UNCHANGED <<accountVars, ownedVars, uiVars, adminVars, storage_objects,
                 routerState, signup, today, reports, receipt>>

\* the owner deletes a row in another session
DeleteElsewhere(t, id) ==
  /\ listPage.call = NoRow
  /\ id \in DOMAIN Tbl(t)
  /\ DeleteRow(RootOwner(t, Tbl(t)[id]), t, id)

\* the response of that statement
SettleElsewhere ==
  /\ listPage.call = NoRow
  /\ Settle

(* ---- specification of the list pages ---- *)
\* owner 2 has a property with a unit, and a tenant with a lease of that unit; the
\* session is that of owner 2 or of the super_admin, identity 1
InitList ==
  /\ auth_users = UserIds
  /\ profiles = [u \in UserIds |-> [approval_status |-> "approved", phone |-> "none"]]
  /\ user_roles = SeededRoles({1})
  /\ properties = (1 :> [owner_id |-> 2])
  /\ units = (1 :> [property_id |-> 1, status |-> "available"])
  /\ tenants = (1 :> [owner_id |-> 2])
  /\ leases = (1 :> [unit_id |-> 1, tenant_id |-> 1])
  /\ payments = <<>>
  /\ maintenance_requests = <<>>
  /\ lastOp = NoOp
  /\ auth \in {SessionOf(1), SessionOf(2)}
  /\ location = "/dashboard"
  /\ view = ApprovalGuard(auth, location)
  /\ InitAdminVars
  /\ InitPageVars

NextList ==
  \/ \E t \in ListTables : MountList(t)
  \/ \E res \in {"ok", "list_error", "options_error"} : fetchListDone(res)
  \/ OpenDialog
  \/ \E f \in FormsOf(listPage.table, listPage.options) : SetFormData(f)
  \/ CancelDialog
  \/ DismissDialog
  \/ \E id \in RowIds(listPage.table) : handleEdit(id)
  \/ handleSubmit
  \/ \E id \in RowIds(listPage.table) : handleDelete(id)
  \/ \E id \in RowIds(listPage.table) : handleResolve(id)
  \/ ServeWrite
  \/ LoseWrite
  \/ WriteDone
  \/ \E t \in {"units", "leases"} : \E id \in RowIds(t) : DeleteElsewhere(t, id)
  \/ SettleElsewhere

SpecList == InitList /\ [][NextList]_vars

(* ---- the sign-in page ---- *)
\* the element of the route /auth, which no guard wraps
AuthView == Rendered("auth", {}, "none")

\* a guarded route is requested from the address bar or a link: no state is carried
Visit(loc) ==
  /\ loc # location
  /\ location' = loc
  /\ routerState' = "none"
  /\ view' = ApprovalGuard(auth, loc)
  /\ UNCHANGED <<auth, accountVars, ownedVars, lastOp, adminVars, storage_objects, signup,
                 today, listPage, reports, receipt>>

\* the session turns out to be absent: loading ends with no user
SessionAbsent ==
  /\ auth = Resolving
  /\ auth' = SignedOut
  /\ view' = IF location = "/auth" THEN AuthView ELSE ApprovalGuard(SignedOut, location)
  /\ UNCHANGED <<location, accountVars, ownedVars, lastOp, adminVars, pageVars>>

\* <Navigate to="/auth" state={{ from: location }} replace />
GuardRedirect ==
  /\ view.kind = "navigate:/auth"
  /\ location' = "/auth"
  /\ routerState' = view.from
  /\ view' = AuthView
  /\ UNCHANGED <<auth, accountVars, ownedVars, lastOp, adminVars, storage_objects, signup,
                 today, listPage, reports, receipt>>

\* handleLogin: signIn, then the error toast or navigate('/dashboard'); the effect on
\* [user, loading] navigates to '/dashboard' as well
handleLogin(u, ok) ==
  /\ location = "/auth" /\ auth = SignedOut /\ u \in auth_users
  /\ IF ok
     THEN /\ auth' = SessionOf(u)
          /\ location' = "/dashboard"
          /\ routerState' = "none"
          /\ view' = ApprovalGuard(SessionOf(u), "/dashboard")
     ELSE UNCHANGED <<auth, location, routerState, view>>
  /\ UNCHANGED <<accountVars, ownedVars, lastOp, adminVars, storage_objects, signup,
                 today, listPage, reports, receipt>>

(* ---- specification of sign-in after a redirect ---- *)
\* the identities have registered, with any approval status; identity 1 is super_admin
InitLogin ==
  /\ auth_users = UserIds
  /\ profiles \in [UserIds -> [approval_status : approval_status, phone : {"none"}]]
  /\ user_roles = SeededRoles({1})
  /\ properties = <<>>
  /\ units = <<>>
  /\ tenants = <<>>
  /\ leases = <<>>
  /\ payments = <<>>
  /\ maintenance_requests = <<>>
  /\ lastOp = NoOp
  /\ auth = Resolving
  /\ location \in Routes
  /\ view = ApprovalGuard(auth, location)
  /\ InitAdminVars
  /\ InitPageVars

NextLogin ==
  \/ \E loc \in Routes : Visit(loc)
  \/ SessionAbsent
  \/ GuardRedirect
  \/ \E u \in auth_users, ok \in BOOLEAN : handleLogin(u, ok)
  \/ SignOut

SpecLogin == InitLogin /\ [][NextLogin]_vars

(* ---- the sign-up wizard ---- *)
AdultAge == 18            \* if (age < 18)
MinPasswordLength == 6    \* if (signupData.password.length < 6)

\* Date.prototype.getFullYear()
getFullYear(date) == date[1]

\* the inputs rendered at a step ({signupStep === n && ...}); the provider select is
\* rendered for mobile money only.  idType, which no step validates, is left out
StepFields(step, data) ==
  CASE step = 1 -> {"fullName", "email", "password", "confirmPassword", "phone", "dateOfBirth"}
    [] step = 2 -> {"residentialAddress", "city", "country", "postalCode"}
    [] step = 3 -> {"idNumber", "idDocument"}
    [] step = 4 -> {"paymentMethod", "billingAddress", "securityDepositAgreed", "termsAccepted"}
                     \cup (IF data.paymentMethod = "mobile_money" THEN {"paymentProvider"}
                           ELSE {})

\* what each input can hand to updateSignupData: a text input any text, a select one of
\* its items, the file input a file (handleFileChange ignores an empty choice)
FieldValues(field) ==
  CASE field \in {"password"} -> {"", "12345", "123456"}
    [] field = "confirmPassword" -> {"", "123456"}
    [] field = "dateOfBirth" -> {NoDate, <<2000, 1, 1>>, <<2015, 1, 1>>}
    [] field = "idDocument" -> {"file"}
    [] field = "paymentMethod" -> {"mobile_money", "bank"}
    [] field = "paymentProvider" -> {"mtn"}
    [] field \in {"securityDepositAgreed", "termsAccepted"} -> BOOLEAN
    [] OTHER -> {"", "x"}

\* validateStep: TRUE unless one of the step's checks returns false
validateStep(step, data, now) ==
  CASE step = 1 ->
         /\ data.fullName # "" /\ data.email # "" /\ data.password # ""
         /\ data.phone # "" /\ data.dateOfBirth # NoDate
         /\ ~(Len(data.password) < MinPasswordLength)
         /\ data.password = data.confirmPassword
         /\ LET dob == data.dateOfBirth
                age == getFullYear(now) - getFullYear(dob)
            IN ~(age < AdultAge)
    [] step = 2 ->
         /\ data.residentialAddress # "" /\ data.city # ""
         /\ data.country # "" /\ data.postalCode # ""
    [] step = 3 -> data.idNumber # "" /\ data.idDocument # "null"
    [] step = 4 ->
         /\ data.paymentMethod # "" /\ data.billingAddress # ""
         /\ ~(data.paymentMethod = "mobile_money" /\ data.paymentProvider = "")
         /\ data.securityDepositAgreed /\ data.termsAccepted

\* an input of the step shown changes: updateSignupData(field, value)
updateSignupData(field, value) ==
  /\ signup.request = NoRow
  /\ field \in StepFields(signup.signupStep, signup.signupData)
  /\ signup.signupData[field] # value
  /\ signup' = [signup EXCEPT !.signupData[field] = value]
  /\ UNCHANGED <<accountVars, ownedVars, uiVars, lastOp, adminVars, storage_objects,
                 routerState, today, listPage, reports, receipt>>

\* mutant: Next advances without validating
nextStepUnchecked ==
  /\ signup.request = NoRow /\ signup.signupStep < 4
  /\ signup' = [signup EXCEPT !.signupStep = IF @ + 1 < 4 THEN @ + 1 ELSE 4]
  /\ UNCHANGED <<accountVars, ownedVars, uiVars, lastOp, adminVars, storage_objects,
                 routerState, today, listPage, reports, receipt>>

\* the Next button, rendered while signupStep < 4
nextStep ==
  /\ signup.request = NoRow /\ signup.signupStep < 4
  /\ signup' = IF validateStep(signup.signupStep, signup.signupData, today)
               THEN [signup EXCEPT !.signupStep = IF @ + 1 < 4 THEN @ + 1 ELSE 4]
               ELSE signup
  /\ UNCHANGED <<accountVars, ownedVars, uiVars, lastOp, adminVars, storage_objects,
                 routerState, today, listPage, reports, receipt>>

\* the Back button, rendered while signupStep > 1
prevStep ==
  /\ signup.request = NoRow /\ signup.signupStep > 1
  /\ signup' = [signup EXCEPT !.signupStep = IF @ - 1 > 1 THEN @ - 1 ELSE 1]
  /\ UNCHANGED <<accountVars, ownedVars, uiVars, lastOp, adminVars, storage_objects,
                 routerState, today, listPage, reports, receipt>>

\* the Create Account button, rendered at step 4 and disabled while submitting:
\* if (!validateStep(4)) return; then supabase.auth.signUp with the data
handleSignup ==
  /\ signup.request = NoRow /\ signup.signupStep = 4
  /\ signup' = IF validateStep(4, signup.signupData, today)
               THEN [signup EXCEPT !.request = [email |-> signup.signupData.email,
                                                password |-> signup.signupData.password]]
               ELSE signup
  /\ UNCHANGED <<accountVars, ownedVars, uiVars, lastOp, adminVars, storage_objects,
                 routerState, today, listPage, reports, receipt>>

\* signUp returns an error: the toast, setIsSubmitting(false); the wizard stays as it is
signUpFailed ==
  /\ signup.request # NoRow
  /\ signup' = [signup EXCEPT !.request = NoRow]
  /\ UNCHANGED <<accountVars, ownedVars, uiVars, lastOp, adminVars, storage_objects,
                 routerState, today, listPage, reports, receipt>>

(* ---- specification of the sign-up wizard ---- *)
\* Auth has mounted; nobody has registered yet
InitSignup ==
  /\ auth_users = {}
  /\ profiles = <<>>
  /\ user_roles = {}
  /\ properties = <<>>
  /\ units = <<>>
  /\ tenants = <<>>
  /\ leases = <<>>
  /\ payments = <<>>
  /\ maintenance_requests = <<>>
  /\ lastOp = NoOp
  /\ auth = SignedOut
  /\ location = "/auth"
  /\ view = AuthView
  /\ InitAdminVars
  /\ InitPageVars

AllFields == UNION {StepFields(k, [paymentMethod |-> "mobile_money"]) : k \in 1..4}

NextSignup ==
  \/ \E field \in AllFields : \E value \in FieldValues(field) : updateSignupData(field, value)
  \/ nextStep
  \/ prevStep
  \/ handleSignup
  \/ signUpFailed

SpecSignup == InitSignup /\ [][NextSignup]_vars

(* ---- specification of the age check of step 1 ---- *)
\* the dates of birth and the current dates drawn: around the eighteenth birthday
BirthDates == {<<y, m, d>> : y \in 2007..2009, m \in {1, 6, 12}, d \in {1, 15, 28}}
CurrentDates == {<<2026, m, d>> : m \in {1, 6, 12}, d \in {1, 15, 28}}

\* step 1 is filled in but for the date of birth; the current date is any of those drawn
InitAge ==
  /\ auth_users = {}
  /\ profiles = <<>>
  /\ user_roles = {}
  /\ properties = <<>>
  /\ units = <<>>
  /\ tenants = <<>>
  /\ leases = <<>>
  /\ payments = <<>>
  /\ maintenance_requests = <<>>
  /\ lastOp = NoOp
  /\ auth = SignedOut
  /\ location = "/auth"
  /\ view = AuthView
  /\ InitAdminVars
  /\ storage_objects = {}
  /\ routerState = "none"
  /\ signup = [NoSignup EXCEPT !.signupData =
                 [initialSignupData EXCEPT !.fullName = "x", !.email = "x", !.phone = "x",
                                           !.password = "123456",
                                           !.confirmPassword = "123456"]]
  /\ today \in CurrentDates
  /\ listPage = NoCrud
  /\ reports = NoReports
  /\ receipt = NoReceipt

NextAge ==
  \/ \E d \in BirthDates : updateSignupData("dateOfBirth", d)
  \/ nextStep
  \/ prevStep

SpecAge == InitAge /\ [][NextAge]_vars

(* ---- the Reports page ---- *)
MaxReportFetches == 2   \* fetchReportData() calls in flight at a time

\* the ranges of the preset buttons and a range picked in the calendar
Ranges == {"3M", "6M", "1Y", "custom"}

\* the sequence without its i-th element
Without(seq, i) == SubSeq(seq, 1, i - 1) \o SubSeq(seq, i + 1, Len(seq))

\* fetchReportData after its awaits: the set...() calls with the data of the range the
\* call was started for (none of them when the queries returned no data), and finally
\* setLoading(false)
ResponseApplied(r, i, ok) ==
  [r EXCEPT !.inflight = Without(r.inflight, i),
            !.shown = IF ok THEN r.inflight[i] ELSE @,
            !.loading = FALSE,
            !.last = IF ok THEN "ok" ELSE "error"]

\* fetchReportData up to its first await: setLoading(true), the queries of the range
\* the render had
Started(r) ==
  [r EXCEPT !.loading = TRUE, !.effect = FALSE, !.inflight = Append(@, r.dateRange)]

\* Reports mounts with the range of the last six months; its effect is to run
MountReports ==
  /\ ~reports.mounted
  /\ reports' = [NoReports EXCEPT !.mounted = TRUE, !.effect = TRUE]
  /\ UNCHANGED <<accountVars, ownedVars, uiVars, lastOp, adminVars, storage_objects,
                 routerState, signup, today, listPage, receipt>>

\* useEffect(() => { fetchReportData(); }, [dateRange]), run after the render that
\* changed dateRange was committed
RunReportEffect ==
  /\ reports.mounted /\ reports.effect
  /\ Len(reports.inflight) < MaxReportFetches
  /\ reports' = Started(reports)
  /\ UNCHANGED <<accountVars, ownedVars, uiVars, lastOp, adminVars, storage_objects,
                 routerState, signup, today, listPage, receipt>>

\* a preset button or the calendar, rendered unless loading: setDateRange of a new range
\* object.  An effect still to run is run before the click is handled
SelectRange(range) ==
  /\ reports.mounted /\ ~reports.loading
  /\ reports.effect => Len(reports.inflight) < MaxReportFetches
  /\ reports' = [(IF reports.effect THEN Started(reports) ELSE reports) EXCEPT
                   !.dateRange = range, !.effect = TRUE]
  /\ UNCHANGED <<accountVars, ownedVars, uiVars, lastOp, adminVars, storage_objects,
                 routerState, signup, today, listPage, receipt>>

\* the queries of one of the calls awaited have all returned
ReportResponse(i, ok) ==
  /\ reports.mounted /\ i \in 1..Len(reports.inflight)
  /\ reports' = ResponseApplied(reports, i, ok)
  /\ UNCHANGED <<accountVars, ownedVars, uiVars, lastOp, adminVars, storage_objects,
                 routerState, signup, today, listPage, receipt>>

(* ---- specification of the Reports page ---- *)
NextReports ==
  \/ MountReports
  \/ RunReportEffect
  \/ \E range \in Ranges : SelectRange(range)
  \/ \E i \in 1..MaxReportFetches, ok \in BOOLEAN : ReportResponse(i, ok)

SpecReports == InitList /\ [][NextReports]_vars

(* ---- the Receipt page ---- *)
\* the ids a /receipt URL can carry: none (0), those of the table, and one of no row
ReceiptIds == 0..(MaxRows + 1)

\* what the page renders: the loading branch, then the not-found branch, else the receipt
ReceiptView(r) ==
  IF r.loading THEN "Loading receipt..."
  ELSE IF r.payment = NoRow THEN "Receipt not found" ELSE "receipt"

\* /receipt or /receipt?id=... is opened by a signed-in user; the effect is to run
MountReceipt(id) ==
  /\ ~receipt.mounted /\ auth.user \in auth_users
  /\ receipt' = [NoReceipt EXCEPT !.mounted = TRUE, !.paymentId = id, !.effect = TRUE]
  /\ UNCHANGED <<accountVars, ownedVars, uiVars, lastOp, adminVars, storage_objects,
                 routerState, signup, today, listPage, reports>>

\* useEffect(() => { if (paymentId) { fetchPayment(); } }, [paymentId])
ReceiptEffect ==
  /\ receipt.mounted /\ receipt.effect
  /\ receipt' = [receipt EXCEPT !.effect = FALSE, !.fetching = receipt.paymentId # 0]
  /\ UNCHANGED <<accountVars, ownedVars, uiVars, lastOp, adminVars, storage_objects,
                 routerState, signup, today, listPage, reports>>

\* fetchPayment after its await: .single() gives the row the caller may see ("ok"), an
\* error when there is none ("no_row"), or the request fails ("error"); an error is
\* thrown and logged; finally setLoading(false)
fetchPaymentDone(res) ==
  LET id == receipt.paymentId
      seen == id \in DOMAIN payments /\ CanSelect("payments", auth.user, payments[id])
  IN /\ receipt.mounted /\ receipt.fetching
     /\ res = "ok" => seen
     /\ res = "no_row" => ~seen
     /\ receipt' = [receipt EXCEPT !.fetching = FALSE,
                                   !.payment = IF res = "ok" THEN payments[id] ELSE @,
                                   !.loading = FALSE]
     /\ UNCHANGED <<accountVars, ownedVars, uiVars, lastOp, adminVars, storage_objects,
                    routerState, signup, today, listPage, reports>>

\* Back to Payments, rendered by the not-found view and by the receipt: navigate('/payments')
LeaveReceipt ==
  /\ receipt.mounted /\ ~receipt.loading
  /\ receipt' = NoReceipt
  /\ UNCHANGED <<accountVars, ownedVars, uiVars, lastOp, adminVars, storage_objects,
                 routerState, signup, today, listPage, reports>>

\* the owner of the lease records a payment in another session
RecordElsewhere(st) ==
  /\ listPage.call = NoRow
  /\ \E l \in DOMAIN leases :
       InsertRow(RootOwner("leases", leases[l]), "payments", [lease_id |-> l, status |-> st])

(* ---- specification of the Receipt page ---- *)
\* as InitList, with no payment or one payment of the lease
InitReceipt ==
  /\ auth_users = UserIds
  /\ profiles = [u \in UserIds |-> [approval_status |-> "approved", phone |-> "none"]]
  /\ user_roles = SeededRoles({1})
  /\ properties = (1 :> [owner_id |-> 2])
  /\ units = (1 :> [property_id |-> 1, status |-> "available"])
  /\ tenants = (1 :> [owner_id |-> 2])
  /\ leases = (1 :> [unit_id |-> 1, tenant_id |-> 1])
  /\ payments \in {<<>>} \cup {(1 :> [lease_id |-> 1, status |-> st]) : st \in PaymentStatus}
  /\ maintenance_requests = <<>>
  /\ lastOp = NoOp
  /\ auth \in {SessionOf(1), SessionOf(2)}
  /\ location = "/receipt"
  /\ view = ApprovalGuard(auth, location)
  /\ InitAdminVars
  /\ InitPageVars

NextReceipt ==
  \/ \E id \in ReceiptIds : MountReceipt(id)
  \/ ReceiptEffect
  \/ \E res \in {"ok", "no_row", "error"} : fetchPaymentDone(res)
  \/ LeaveReceipt
  \/ \E st \in PaymentStatus : RecordElsewhere(st)
  \/ \E id \in RowIds("payments") : DeleteElsewhere("payments", id)
  \/ SettleElsewhere

\* an effect of a committed render runs, and every request is answered or fails
SpecReceipt ==
  /\ InitReceipt /\ [][NextReceipt]_vars
  /\ WF_vars(ReceiptEffect)
  /\ WF_vars(\E res \in {"ok", "no_row", "error"} : fetchPaymentDone(res))

(* ======================= claims on the policy layer ======================= *)
IsWrite == lastOp.op \in {"insert", "update", "delete"}
NonAdminCaller == lastOp.caller \in auth_users /\ ~lastOp.admin

\* C1: a read by an identity without super_admin succeeds and returns no row whose
\* resolved root owner is another identity
C1_ForeignReadEmpty ==
  (lastOp.op = "select" /\ lastOp.table \in OwnedTables /\ NonAdminCaller) =>
    /\ lastOp.result = "ok"
    /\ \A id \in DOMAIN Tbl(lastOp.table) :
         RootOwner(lastOp.table, Tbl(lastOp.table)[id]) # lastOp.caller => id \notin lastOp.rows

\* a non-admin read payments while the only payment belongs to another identity: empty, no error
C1_Witness ==
  /\ lastOp.op = "select" /\ lastOp.table = "payments" /\ NonAdminCaller
  /\ \E id \in DOMAIN payments : RootOwner("payments", payments[id]) # lastOp.caller
  /\ lastOp.rows = {} /\ lastOp.result = "ok"

\* the write targets a row (or, for an insert, a parent chain) owned by another identity
ForeignWrite ==
  /\ IsWrite /\ lastOp.table \in OwnedTables /\ NonAdminCaller
  /\ IF lastOp.op = "insert"
     THEN lastOp.new_owner \notin {0, lastOp.caller}
     ELSE lastOp.old_owner \notin {0, lastOp.caller}

WellFormedWrite ==
  /\ IsWrite /\ lastOp.table \in OwnedTables
  /\ lastOp.op # "insert" => lastOp.old_owner # 0
  /\ lastOp.op # "delete" => lastOp.fk /\ lastOp.new_owner # 0

CallerOwnsTarget ==
  /\ lastOp.op # "insert" => lastOp.old_owner = lastOp.caller
  /\ lastOp.op # "delete" => lastOp.new_owner = lastOp.caller

C3_StatusOnlyByAdmin ==
  [][\A u \in DOMAIN profiles :
       profiles'[u].approval_status # profiles[u].approval_status => lastOp'.admin]_vars

\* C9: a read returns exactly the caller's own profile, or every profile to a super_admin;
\* an update of an existing profile is applied iff the row is the caller's or the caller
\* holds super_admin, and otherwise changes nothing
C9_ProfileAccess ==
  [][lastOp'.table = "profiles" =>
       LET admitted(id) == id = lastOp'.caller \/ lastOp'.admin
       IN /\ lastOp'.op = "select" =>
               lastOp'.rows = {id \in DOMAIN profiles : admitted(id)}
          /\ (lastOp'.op = "update" /\ lastOp'.old_owner # 0) =>
               IF admitted(lastOp'.id)
               THEN /\ lastOp'.n = 1 /\ lastOp'.result = "ok"
                    /\ profiles' = [profiles EXCEPT ![lastOp'.id] = lastOp'.row]
               ELSE lastOp'.n = 0 /\ profiles' = profiles]_vars

\* a caller without super_admin tried to change another identity's profile: nothing changed
C9_Witness ==
  /\ lastOp.table = "profiles" /\ lastOp.op = "update" /\ ~lastOp.admin
  /\ lastOp.id \in DOMAIN profiles /\ lastOp.id # lastOp.caller
  /\ lastOp.row # profiles[lastOp.id] /\ lastOp.n = 0
  /\ \E a \in auth_users : has_role(a, "super_admin")

\* C10: a statement of a caller without super_admin leaves user_roles unchanged,
\* registration adds exactly the new identity's property_owner row, and a caller
\* without super_admin reads only its own role rows
C10_RolesOnlyByAdmin ==
  [][/\ (lastOp'.op # "signup" /\ ~lastOp'.admin) => user_roles' = user_roles
     /\ lastOp'.op = "signup" =>
          user_roles' = user_roles \cup {[user_id |-> lastOp'.id, role |-> "property_owner"]}
     /\ (lastOp'.op = "select" /\ lastOp'.table = "user_roles" /\ ~lastOp'.admin) =>
          lastOp'.rows = {r \in user_roles : r.user_id = lastOp'.caller}]_vars

\* a caller without super_admin tried to grant itself super_admin and was denied
C10_Witness ==
  /\ lastOp.table = "user_roles" /\ lastOp.op = "insert" /\ ~lastOp.admin
  /\ lastOp.row = [user_id |-> lastOp.caller, role |-> "super_admin"]
  /\ lastOp.result = "permission_denied"
  /\ ~has_role(lastOp.caller, "super_admin")

(* ======================= claims on ApprovalGuard ======================= *)
NonAdminSession == ~hasRole(auth, "super_admin")
Blocking == {"navigate:/auth", "pending_approval", "access_denied"}

\* C4 (as stated): for a non-admin the protected view is rendered iff the identity is
\* authenticated and approved, and otherwise one of redirect, pending view, rejected view
C4_GuardThreeOutcomes ==
  NonAdminSession =>
    /\ view.kind = "children" <=> (auth.user # 0 /\ auth.profile = "approved")
    /\ view.kind # "children" => view.kind \in Blocking

\* C4 (amended): for a non-admin the protected view is rendered iff the session has
\* resolved with an identity whose profile is approved; otherwise exactly one of the
\* loading placeholder, the redirect, the pending view or the rejected view is rendered
C4_GuardFourOutcomes ==
  NonAdminSession =>
    /\ view.kind = "children" <=> (~auth.loading /\ auth.user # 0 /\ auth.profile = "approved")
    /\ view.kind # "children" => view.kind \in Blocking \cup {"loading"}
    /\ view.kind = "loading" <=> auth.loading

\* an approved owner sees the route, after having been held on the loading placeholder
C4_Witness ==
  /\ NonAdminSession /\ ~auth.loading /\ auth.user # 0 /\ auth.profile = "approved"
  /\ view.kind = "children" /\ location = "/units"

\* C5: a pending identity gets the "awaiting approval" view, a rejected one the
\* "access denied" view, each with sign-out as its only action
C5_PendingAndRejectedViews ==
  (~auth.loading /\ auth.user # 0 /\ NonAdminSession) =>
    /\ auth.profile = "pending" => view = Rendered("pending_approval", {"signOut"}, "none")
    /\ auth.profile = "rejected" => view = Rendered("access_denied", {"signOut"}, "none")

\* C6: an authenticated super_admin is shown the requested view whatever the profile
C6_AdminBypass ==
  (~auth.loading /\ auth.user # 0 /\ hasRole(auth, "super_admin")) => view.kind = "children"

\* a super_admin whose own profile is rejected is shown /admin
C6_Witness ==
  /\ ~auth.loading /\ auth.user # 0 /\ hasRole(auth, "super_admin")
  /\ auth.profile = "rejected" /\ location = "/admin" /\ view.kind = "children"

\* C7: while resolving only the loading placeholder is rendered; once resolved without
\* an identity the guard redirects to /auth with the requested location, whatever the
\* roles and the profile held by the context
C7_LoadingThenRedirect ==
  /\ auth.loading => view = Rendered("loading", {}, "none")
  /\ (~auth.loading /\ auth.user = 0) => view = Rendered("navigate:/auth", {}, location)

\* the session resolved without identity while /units was requested
C7_Witness ==
  /\ ~auth.loading /\ auth.user = 0 /\ location = "/units"
  /\ view = Rendered("navigate:/auth", {}, "/units")

(* ======================= claims on registration ======================= *)
\* C11: right after an identity is registered its profile exists with approval_status
\* pending and its only role row is property_owner (none with super_admin)
C11_RegistrationDefaults ==
  lastOp.op = "signup" =>
    /\ lastOp.id \in DOMAIN profiles
    /\ profiles[lastOp.id].approval_status = "pending"
    /\ {r \in user_roles : r.user_id = lastOp.id} =
         {[user_id |-> lastOp.id, role |-> "property_owner"]}

\* identity 2 has just registered while identity 1 holds super_admin
C11_Witness ==
  /\ lastOp.op = "signup" /\ lastOp.id = 2
  /\ 2 \in auth_users /\ has_role(1, "super_admin")

(* ======================= claims on the Admin page ======================= *)
\* the session on screen is not one of a super_admin
NoAdminOnScreen == auth.user = 0 \/ ~has_role(auth.user, "super_admin")

\* C12: an update of another identity's approval_status by a caller without super_admin
\* is not applied; for a session without super_admin the Admin page shows no approve or
\* reject control and, once the session has resolved, only redirects to /dashboard; every
\* fetch of the profile list and every updateApproval call has a super_admin as caller
C12_ApprovalOnlyByAdmin ==
  [][/\ (/\ lastOp'.table = "profiles" /\ lastOp'.op = "update"
         /\ ~lastOp'.admin /\ lastOp'.id # lastOp'.caller /\ lastOp'.id \in DOMAIN profiles) =>
          /\ profiles'[lastOp'.id].approval_status = profiles[lastOp'.id].approval_status
          /\ lastOp'.n = 0
     /\ NoAdminOnScreen' =>
          /\ Controls(adminPage') = {}
          /\ adminPage'.render \in {"none", "null", "navigate:/dashboard"}
          /\ (adminPage'.render = "null") => auth'.loading
     /\ adminPage'.fetching # 0 => has_role(adminPage'.fetching, "super_admin")
     /\ (adminPage.call = NoRow /\ adminPage'.call # NoRow) => lastOp'.admin]_vars

\* an approved owner has opened /admin and is being redirected, with a profile list still
\* in the component's state, and its update of the super_admin's status was not applied
C12_Witness ==
  /\ auth.user = 2 /\ NoAdminOnScreen /\ location = "/admin"
  /\ adminPage.render = "navigate:/dashboard" /\ 1 \in DOMAIN adminPage.shown
  /\ lastOp.table = "profiles" /\ lastOp.op = "update" /\ lastOp.caller = 2 /\ lastOp.id = 1
  /\ lastOp.row.approval_status # profiles[1].approval_status /\ lastOp.n = 0

(* ======================= claims on the approval workflow ======================= *)
\* the handler of an updateApproval call whose status update succeeded runs to its end
WorkflowSucceeded ==
  /\ adminPage.call # NoRow /\ adminPage'.call = NoRow
  /\ lastOp.result = "ok" /\ lastOp.n = 1

\* the handler of an updateApproval call whose status update failed runs to its end
WorkflowFailed ==
  /\ adminPage.call # NoRow /\ adminPage'.call = NoRow
  /\ lastOp.result # "ok"

\* the audit entries a step appended
Appended == {admin_activity_logs'[i] : i \in DOMAIN admin_activity_logs' \ DOMAIN admin_activity_logs}

\* C13: every successful updateApproval call appends exactly one audit entry, recording
\* the acting admin, the target user and the transition; no other step of the workflow
\* changes the audit log (so n successful calls add exactly n entries)
C13_OneAuditEntryPerTransition ==
  [][IF WorkflowSucceeded
     THEN /\ Cardinality(DOMAIN admin_activity_logs') = Cardinality(DOMAIN admin_activity_logs) + 1
          /\ \E entry \in Appended :
               /\ entry.admin_id = lastOp.caller
               /\ entry.target_user_id = adminPage.call.id
               /\ entry.details = <<adminPage.call.from, adminPage.call.to>>
     ELSE admin_activity_logs' = admin_activity_logs]_vars

C16_RepeatedApproval ==
  [][(WorkflowSucceeded /\ adminPage.call.from = "approved" /\ adminPage.call.to = "approved") =>
       /\ lastOp.result = "ok"
       /\ profiles'[adminPage.call.id].approval_status = "approved"
       /\ Cardinality({i \in DOMAIN admin_activity_logs' :
                         /\ admin_activity_logs'[i].target_user_id = adminPage.call.id
                         /\ admin_activity_logs'[i].details[2] = "approved"}) >= 2]_vars

\* the transitions of section 4.3
ValidMoves ==
  {<<"pending", "approved">>, <<"pending", "rejected">>,
   <<"approved", "rejected">>, <<"rejected", "approved">>}

\* C17: a step of the workflow that changes a profile's approval_status moves it along
\* one of the four transitions and never to pending, and for every profile listed the
\* page offers at least one transition
C17_ValidTransitions ==
  [][/\ \A u \in DOMAIN profiles :
          profiles'[u].approval_status # profiles[u].approval_status =>
            /\ <<profiles[u].approval_status, profiles'[u].approval_status>> \in ValidMoves
            /\ profiles'[u].approval_status # "pending"
     /\ moves' \subseteq ValidMoves
     /\ adminPage'.render = "page" =>
          \A id \in DOMAIN adminPage'.shown : \E st \in approval_status :
            <<id, st>> \in Controls(adminPage')]_vars

\* each of the four transitions has been made through the page
C17_Witness == moves = ValidMoves /\ adminPage.render = "page"

(* ======================= claims on the audit log ======================= *)
\* C15: no statement of any caller changes or removes an existing audit entry; a caller
\* without super_admin reads no entry and its insert is denied, leaving the log unchanged
C15_AuditInsertOnly ==
  [][/\ \A i \in DOMAIN admin_activity_logs :
          i \in DOMAIN admin_activity_logs' /\ admin_activity_logs'[i] = admin_activity_logs[i]
     /\ (lastOp'.table = "admin_activity_logs" /\ lastOp'.op \in {"update", "delete"}) =>
          lastOp'.n = 0
     /\ (lastOp'.table = "admin_activity_logs" /\ ~lastOp'.admin) =>
          /\ admin_activity_logs' = admin_activity_logs
          /\ lastOp'.op = "select" => lastOp'.rows = {}
          /\ lastOp'.op = "insert" => lastOp'.result = "permission_denied"]_vars

\* a super_admin tried to delete an existing entry: no row was affected, the entry is there
C15_Witness ==
  /\ lastOp.table = "admin_activity_logs" /\ lastOp.op = "delete" /\ lastOp.admin
  /\ lastOp.id \in DOMAIN admin_activity_logs /\ lastOp.n = 0

(* ======================= claims on the guard after a status change ======================= *)
\* the outcome section 4.2 assigns to a non-admin identity with the given status
ExpectedView(status) ==
  CASE status = "approved" -> "children"
    [] status = "pending" -> "pending_approval"
    [] status = "rejected" -> "access_denied"

\* C18: at every navigation of a signed-in identity without super_admin the guard renders
\* the outcome of the identity's current approval_status (the protected view when approved,
\* the pending view when pending, the rejected view when rejected), whatever status the
\* client held before
C18_NavigationReflectsStatus ==
  [][(location' # location /\ auth'.user \in auth_users
        /\ ~has_role(auth'.user, "super_admin")) =>
       view'.kind = ExpectedView(profiles'[auth'.user].approval_status)]_vars

(* ======================= claims on the ownership chain ======================= *)
\* every row's parents exist and its chain ends in a registered owner
ChainResolves ==
  \A t \in OwnedTables : \A id \in DOMAIN Tbl(t) :
    FkOk(t, Tbl(t)[id]) /\ RootOwner(t, Tbl(t)[id]) \in auth_users

\* C19: every owned row has an existing parent chain ending in one owner, and the owner
\* of a lease's tenant is the owner reached through the lease's unit
C19_OneOwnerPerResource ==
  /\ ChainResolves
  /\ \A l \in DOMAIN leases :
       leases[l].tenant_id \in DOMAIN tenants =>
         tenants[leases[l].tenant_id].owner_id = RootOwner("leases", leases[l])

(* ======================= claims on the life of a profile ======================= *)
\* C20: in every state the profiles are exactly those of the registered identities (one
\* each, by the primary key); no statement of a caller adds or removes a profile, and a
\* profile goes only together with its identity
C20_OneProfilePerIdentity ==
  [][/\ DOMAIN profiles' = auth_users'
     /\ lastOp'.caller # 0 => DOMAIN profiles' = DOMAIN profiles
     /\ \A u \in DOMAIN profiles : u \notin DOMAIN profiles' => u \notin auth_users']_vars

\* an identity tried to delete its own profile: no row was affected and the profile is there
C20_Witness ==
  /\ lastOp.table = "profiles" /\ lastOp.op = "delete" /\ lastOp.caller = lastOp.id
  /\ lastOp.id \in DOMAIN profiles /\ lastOp.n = 0
  /\ Cardinality(auth_users) = MaxUsers

(* ======================= claims on the id-documents bucket ======================= *)
\* the identity whose id, as text, is the first segment of the name
PrefixOwner(name) == {u \in UserIds : Len(name) >= 2 /\ name[1] = ToString(u)}

\* C21: every object of the id-documents bucket lies under the id of the identity that
\* uploaded it; an upload succeeds only under the caller's own prefix, and a download
\* returns an object only to the identity of its prefix or to a super_admin
C21_IdDocumentsPerUser ==
  [][/\ \A o \in storage_objects' :
          o.bucket_id = "id-documents" => PrefixOwner(o.name) = {o.owner}
     /\ (lastOp'.op = "upload" /\ lastOp'.result = "ok") =>
          lastOp'.caller \in PrefixOwner(lastOp'.row.name)
     /\ (lastOp'.op = "download" /\ lastOp'.rows # {}) =>
          \/ lastOp'.caller \in PrefixOwner(lastOp'.row.name)
          \/ has_role(lastOp'.caller, "super_admin")
     /\ lastOp'.op = "remove" => storage_objects' = storage_objects]_vars

\* an identity without super_admin asked for a stored document of another identity and
\* got nothing
C21_Witness ==
  /\ lastOp.op = "download" /\ lastOp.caller \in auth_users /\ ~lastOp.admin
  /\ \E o \in storage_objects :
       /\ o.bucket_id = lastOp.row.bucket_id /\ o.name = lastOp.row.name
       /\ o.owner # lastOp.caller
  /\ lastOp.result = "not_found" /\ lastOp.rows = {}

(* ======================= claims on the list pages ======================= *)
\* the step in which a handler takes the response of its write
ResponseTaken == listPage.call # NoRow /\ lastOp # NoOp /\ lastOp' = NoOp

\* the same for updateApproval of the Admin page: its fetchData() starts in the step that
\* takes a successful response
AdminRefetchAfterAck ==
  [][(adminPage.render = "page" /\ adminPage.fetching = 0 /\ adminPage'.fetching # 0) =>
       /\ adminPage.call # NoRow /\ lastOp # NoOp /\ lastOp.result = "ok"
       /\ adminPage'.call = NoRow]_vars

\* C22: a mounted list page starts a fetchData() only in the step in which a handler
\* takes the response of its own write, and only when that response reports no error;
\* while a write is awaited no fetchData() starts
C22_RefetchAfterAck ==
  [][(listPage.table # "none" /\ listPage'.fetching > listPage.fetching) =>
       /\ ResponseTaken
       /\ lastOp.result = "ok"
       /\ lastOp.op = listPage.call.op /\ lastOp.table = listPage.table
       /\ listPage'.call = NoRow
       /\ listPage'.fetching = listPage.fetching + 1]_vars

\* a write was applied and acknowledged, and the refetch it started is still in flight:
\* the list on screen is behind the table
C22_Witness ==
  /\ listPage.table = "maintenance_requests" /\ listPage.call = NoRow /\ lastOp = NoOp
  /\ listPage.fetching = 1 /\ ~listPage.loading
  /\ DOMAIN maintenance_requests # DOMAIN listPage.shown

\* C23: the handler that takes an error response shows one destructive toast, sends no
\* request (no retry, no refetch), changes nothing in the tables and leaves the dialog,
\* the form data and the record being edited as they are; a destructive toast is shown
\* in no other step
C23_FailedWriteSurfacesOnce ==
  [][/\ (ResponseTaken /\ lastOp.result # "ok") =>
          /\ listPage'.errors = listPage.errors + 1
          /\ listPage'.call = NoRow
          /\ listPage'.fetching = listPage.fetching
          /\ listPage'.dialogOpen = listPage.dialogOpen
          /\ listPage'.formData = listPage.formData
          /\ listPage'.editing = listPage.editing
          /\ UNCHANGED ownedVars
     /\ listPage'.errors # listPage.errors => (ResponseTaken /\ lastOp.result # "ok")]_vars

\* the insert of a payment failed: one toast was shown, the dialog is open with the lease
\* still selected, and no request is in flight
C23_Witness ==
  /\ listPage.table = "payments" /\ listPage.errors = 1
  /\ listPage.dialogOpen /\ listPage.editing = 0 /\ listPage.formData.lease_id # 0
  /\ listPage.call = NoRow /\ lastOp = NoOp /\ listPage.fetching = 0
  /\ payments = <<>>

(* ======================= claims on maintenance requests ======================= *)
\* C30: every maintenance request has resolved_at set exactly when its status is resolved
C30_ResolvedAtIffResolved ==
  \A id \in DOMAIN maintenance_requests :
    (maintenance_requests[id].resolved_at # "null")
      <=> (maintenance_requests[id].status = "resolved")

\* a request that the list still shows as resolved was edited to another status, and its
\* resolved_at is cleared
C30_Witness ==
  \E id \in DOMAIN maintenance_requests \cap DOMAIN listPage.shown :
    /\ listPage.shown[id].status = "resolved" /\ listPage.shown[id].resolved_at = "timestamp"
    /\ maintenance_requests[id].status # "resolved"
    /\ maintenance_requests[id].resolved_at = "null"

(* ======================= claims on sign-in after a redirect ======================= *)
\* C24: when the guard has sent an unauthenticated visit of location L to /auth, the
\* sign-in that succeeds there navigates to L
C24_ReturnToRequestedLocation ==
  [][(location = "/auth" /\ routerState \in Routes /\ auth.user = 0 /\ auth'.user # 0) =>
       location' = routerState]_vars

(* ======================= claims on the sign-up wizard ======================= *)
\* the number of birthdays the applicant has had on the current date
FullYears(dob, now) ==
  getFullYear(now) - getFullYear(dob)
    - (IF now[2] < dob[2] \/ (now[2] = dob[2] /\ now[3] < dob[3]) THEN 1 ELSE 0)

\* C25: step 1 is passed only by an applicant who is at least 18 years old on the
\* current date
C25_AgeVerification ==
  [][(signup.signupStep = 1 /\ signup'.signupStep = 2) =>
       FullYears(signup.signupData.dateOfBirth, today) >= AdultAge]_vars

\* C26: signupStep stays within 1..4, goes up by one only and only when validateStep of
\* the step left passes, and signUp is requested only with data that pass the checks of
\* all four steps
C26_SubmitOnlyValidated ==
  [][/\ signup'.signupStep \in 1..4
     /\ signup'.signupStep > signup.signupStep =>
          /\ signup'.signupStep = signup.signupStep + 1
          /\ validateStep(signup.signupStep, signup.signupData, today)
     /\ (signup.request = NoRow /\ signup'.request # NoRow) =>
          /\ signup'.signupData = signup.signupData
          /\ \A k \in 1..4 : validateStep(k, signup.signupData, today)]_vars

\* signUp was requested for a mobile-money applicant
C26_Witness ==
  /\ signup.request # NoRow /\ signup.signupStep = 4
  /\ signup.signupData.paymentMethod = "mobile_money"

(* ======================= claims on the user-details dialog ======================= *)
\* C27: once the request of an Approve / Reject click in the dialog has settled, the
\* status the dialog holds for the selected profile, from which its buttons are derived,
\* is the persisted approval_status
C27_DialogShowsPersistedStatus ==
  [][(/\ adminPage.call # NoRow /\ adminPage'.call = NoRow /\ adminPage.call.dialog
      /\ adminPage'.selected # NoRow /\ adminPage'.selected.id = adminPage.call.id) =>
       /\ adminPage'.selected.approval_status =
            profiles'[adminPage.call.id].approval_status
       /\ Offered(adminPage'.selected.approval_status) =
            Offered(profiles'[adminPage.call.id].approval_status)]_vars

(* ======================= claims on the Reports page ======================= *)
\* C28: when a call has returned its data, loading is cleared only with the data of the
\* range selected on screen, and once no call is awaited any more the data on screen are
\* those of the range selected, in whatever order the responses arrive
C28_LatestRangeDisplayed ==
  [][(Len(reports'.inflight) < Len(reports.inflight) /\ reports'.last = "ok") =>
       /\ ~reports'.loading => reports'.shown = reports'.dateRange
       /\ (reports'.inflight = <<>> /\ ~reports'.effect) =>
            reports'.shown = reports'.dateRange]_vars

(* ======================= claims on the Receipt page ======================= *)
\* C29: a Receipt page that was opened, with or without an id in the URL, eventually
\* shows the receipt or the "Receipt not found" view
C29_ReceiptLeavesLoading ==
  receipt.mounted ~> (receipt.mounted /\ ReceiptView(receipt) # "Loading receipt...")

====
